---------------------------- MODULE Spec2Model ----------------------------
(***************************************************************************)
(* Model of the Automated Insight Engine pipeline                          *)
(* (backend/engine/metrics.py, backend/engine/insights.py).                *)
(*                                                                         *)
(* Python floats are modelled as exact fractions n/d (d > 0) extended with *)
(* the three IEEE specials +inf = 1/0, -inf = -1/0 and NaN = 0/0, so that  *)
(* a division by zero is a value the model can produce and a check can     *)
(* see.  Signed zeros and binary rounding of finite results are not        *)
(* modelled.                                                               *)
(***************************************************************************)
EXTENDS Integers, Sequences, FiniteSets, TLC

VARIABLES
    \* --- scoring of one (current, previous) pair: insights.py 212-214
    sc_pc, current, previous, metric_priority, total_metrics,
    delta, delta_pct, impact,
    \* --- the insight engine: insights.py extract_insights, rank_insights
    in_pc, joined_df, dimensions, kpi_priority, insights,
    top_n, min_impact, ranked, reranked, summary,
    \* --- the metrics stage: metrics.py compute_all_derived_metrics,
    \*     aggregate_by_dimensions
    m_pc, m_input, derived_metrics, m_df, m_prev, m_i, m_error,
    agg_dims, agg_metrics, m_agg,
    \* --- the period splitter: metrics.py split_by_period
    sp_pc, sp_input, sp_tried, sp_error, sp_df, comparison, current_df,
    previous_df,
    \* --- ingestion: ingest.py load_all_sources, join_sources
    ig_pc, ig_config, ig_i, ld_sources, sources, duckdb_calls, duckdb_error,
    polars_calls, ig_error, unified,
    \* --- the period join: insights.py join_periods, extract_insights
    jp_pc, current_agg, previous_agg, jp_dims, jp_joined, jp_insights,
    \* --- loading one source: ingest.py load_csv_source,
    \*     load_database_source
    lo_pc, first_line, delimiter, csv_columns, source_config, query,
    \* --- dashboard sessions: session_manager.py SessionManager
    ss_pc, now, session_files, cache, held, last_call, got,
    \* --- construction of the manager: session_manager.py __new__, __init__
    mg_pc, requested, cls_instance, cls_current_storage_dir, cls_lock, heap,
    self_obj, call_result

scoreVars == <<sc_pc, current, previous, metric_priority, total_metrics,
               delta, delta_pct, impact>>

insightVars == <<in_pc, joined_df, dimensions, kpi_priority, insights,
                 top_n, min_impact, ranked, reranked, summary>>

metricVars == <<m_pc, m_input, derived_metrics, m_df, m_prev, m_i, m_error,
                agg_dims, agg_metrics, m_agg>>

splitVars ==
    <<sp_pc, sp_input, sp_tried, sp_error, sp_df, comparison, current_df,
      previous_df>>

ingestVars == <<ig_pc, ig_config, ig_i, ld_sources, sources, duckdb_calls,
                duckdb_error, polars_calls, ig_error, unified>>

joinVars == <<jp_pc, current_agg, previous_agg, jp_dims, jp_joined,
              jp_insights>>

loaderVars == <<lo_pc, first_line, delimiter, csv_columns, source_config,
                query>>

sessionVars == <<ss_pc, now, session_files, cache, held, last_call, got>>

managerVars == <<mg_pc, requested, cls_instance, cls_current_storage_dir,
                 cls_lock, heap, self_obj, call_result>>

vars == <<scoreVars, insightVars, metricVars, splitVars, ingestVars,
          joinVars, loaderVars, sessionVars, managerVars>>

---------------------------------------------------------------------------
(* Float arithmetic                                                        *)

RECURSIVE GCD(_, _)
GCD(a, b) == IF b = 0 THEN a ELSE GCD(b, a % b)

AbsInt(i) == IF i < 0 THEN -i ELSE i

SignInt(i) == IF i > 0 THEN 1 ELSE IF i < 0 THEN -1 ELSE 0

\* The canonical form of n/d: d >= 0, lowest terms; d = 0 marks a special.
Norm(n, d) ==
    IF d = 0 THEN [n |-> SignInt(n), d |-> 0]
    ELSE LET s == IF d < 0 THEN -1 ELSE 1
             g == GCD(AbsInt(n), AbsInt(d))
         IN  [n |-> (s * n) \div g, d |-> (s * d) \div g]

Q(i) == [n |-> i, d |-> 1]

Frac(n, d) == Norm(n, d)

NaNQ == [n |-> 0, d |-> 0]

PosInf == [n |-> 1, d |-> 0]

NegInf == [n |-> -1, d |-> 0]

IsNaN(a) == a.d = 0 /\ a.n = 0

IsFinite(a) == a.d # 0

\* a * b, cross-reduced first so that intermediate products stay small.
FMul(a, b) ==
    IF a.d = 0 \/ b.d = 0 THEN Norm(a.n * b.n, a.d * b.d)
    ELSE LET g1 == GCD(AbsInt(a.n), b.d)
             g2 == GCD(AbsInt(b.n), a.d)
             h1 == IF g1 = 0 THEN 1 ELSE g1
             h2 == IF g2 = 0 THEN 1 ELSE g2
         IN  Norm((a.n \div h1) * (b.n \div h2), (a.d \div h2) * (b.d \div h1))

FInv(b) == IF b.n < 0 THEN [n |-> -b.d, d |-> -b.n] ELSE [n |-> b.d, d |-> b.n]

\* a / b with IEEE results for a zero divisor: x/0 = +-inf, 0/0 = NaN.
FDiv(a, b) == FMul(a, FInv(b))

FAdd(a, b) ==
    IF a.d = 0 /\ b.d = 0 THEN (IF a.n = b.n THEN a ELSE NaNQ)
    ELSE IF a.d = 0 THEN a
    ELSE IF b.d = 0 THEN b
    ELSE LET g == GCD(a.d, b.d)
         IN  Norm(a.n * (b.d \div g) + b.n * (a.d \div g), (a.d \div g) * b.d)

FNeg(a) == [n |-> -a.n, d |-> a.d]

FSub(a, b) == FAdd(a, FNeg(b))

FAbs(a) == [n |-> AbsInt(a.n), d |-> a.d]

\* Comparisons; every comparison with NaN is false, except "#".
FLt(a, b) ==
    /\ ~IsNaN(a) /\ ~IsNaN(b)
    /\ IF a.d = 0 /\ b.d = 0 THEN a.n < b.n
       ELSE IF a.d = 0 \/ b.d = 0 THEN a.n * b.d < b.n * a.d
       ELSE LET g == GCD(a.d, b.d)
            IN  a.n * (b.d \div g) < b.n * (a.d \div g)

FEq(a, b) == ~IsNaN(a) /\ ~IsNaN(b) /\ a = b

FLe(a, b) == FLt(a, b) \/ FEq(a, b)

\* Python's min(a, b): b if b < a else a.
FMin(a, b) == IF FLt(b, a) THEN b ELSE a

Pow10(k) == IF k = 0 THEN 1 ELSE IF k = 1 THEN 10 ELSE IF k = 2 THEN 100
            ELSE IF k = 3 THEN 1000 ELSE 10000

\* Python's round(x, k): to k decimals, halves to the even neighbour.
Round(a, k) ==
    IF a.d = 0 THEN a
    ELSE LET ip   == a.n \div a.d
             r    == a.n % a.d
             fl   == (r * Pow10(k)) \div a.d
             rem  == (r * Pow10(k)) % a.d
             base == ip * Pow10(k) + fl
             up   == \/ 2 * rem > a.d
                     \/ (2 * rem = a.d /\ base % 2 = 1)
         IN  Norm(IF up THEN base + 1 ELSE base, Pow10(k))

---------------------------------------------------------------------------
(* insights.py: delta, percentage change, impact score                     *)

compute_delta(cur, prev) == FSub(cur, prev)

\* Mutant: divides by previous instead of |previous|.
compute_delta_pct_signed(cur, prev) ==
    IF FEq(prev, Q(0)) THEN
        IF FEq(cur, Q(0)) THEN Q(0)
        ELSE IF FLt(Q(0), cur) THEN Q(100) ELSE Q(-100)
    ELSE FMul(FDiv(FSub(cur, prev), prev), Q(100))

\* Mutant: a change from zero is reported as +100 whatever its direction.
compute_delta_pct_from_zero_up(cur, prev) ==
    IF FEq(prev, Q(0)) THEN
        IF FEq(cur, Q(0)) THEN Q(0) ELSE Q(100)
    ELSE FMul(FDiv(FSub(cur, prev), FAbs(prev)), Q(100))

compute_delta_pct(cur, prev) ==
    IF FEq(prev, Q(0)) THEN
        IF FEq(cur, Q(0)) THEN Q(0)
        ELSE IF FLt(Q(0), cur) THEN Q(100) ELSE Q(-100)
    ELSE FMul(FDiv(FSub(cur, prev), FAbs(prev)), Q(100))

PctCap == 200

\* Mutant: the priority weight grows with the priority index.
compute_impact_score_inverted(dlt, pct, prio, total) ==
    LET pct_factor      == FDiv(FMin(FAbs(pct), Q(PctCap)), Q(PctCap))
        priority_weight == FDiv(Q(prio), Q(total))
        raw_score       == FMul(FMul(FAbs(dlt), FAdd(Q(1), pct_factor)),
                                FAdd(Q(1), priority_weight))
    IN  Round(raw_score, 4)

compute_impact_score(dlt, pct, prio, total) ==
    LET pct_factor      == FDiv(FMin(FAbs(pct), Q(PctCap)), Q(PctCap))
        priority_weight == FDiv(Q(total - prio), Q(total))
        raw_score       == FMul(FMul(FAbs(dlt), FAdd(Q(1), pct_factor)),
                                FAdd(Q(1), priority_weight))
    IN  Round(raw_score, 4)

---------------------------------------------------------------------------
(* Tables.  A table is [columns |-> sequence of names, rows |-> sequence   *)
(* of rows], a row a function from the table's column names to cells.  A   *)
(* metric cell is a float or Null; a dimension cell is a string.           *)

\* A null (None) metric cell.
Null == [n |-> 0, d |-> -1]

\* A null dimension cell, and the value of dict.get for a missing key.
NoneStr == "None"

Range(s) == {s[i] : i \in DOMAIN s}

\* Position of the first occurrence of x in s (0 if absent).
IndexOf(s, x) ==
    IF \E i \in DOMAIN s : s[i] = x
    THEN CHOOSE i \in DOMAIN s : s[i] = x /\ \A j \in 1..(i - 1) : s[j] # x
    ELSE 0

RECURSIVE Flatten(_)
Flatten(ss) == IF ss = <<>> THEN <<>> ELSE Head(ss) \o Flatten(Tail(ss))

\* Python's "v or 0" followed by float(): None and 0 give 0.0.
FloatOrZero(v) == IF v = Null \/ v = Q(0) THEN Q(0) ELSE v

---------------------------------------------------------------------------
(* insights.py: extract_insights                                           *)

Direction(dlt) ==
    IF FLt(Q(0), dlt) THEN "up" ELSE IF FLt(dlt, Q(0)) THEN "down" ELSE "flat"

\* Mutant: scores from the rounded delta and delta_pct of the record.
InsightOf_rounded(row, dims, metric, priority_idx, total) ==
    LET current_val  == FloatOrZero(row[metric \o "_current"])
        previous_val == FloatOrZero(row[metric \o "_previous"])
        dlt          == Round(compute_delta(current_val, previous_val), 4)
        pct          == Round(compute_delta_pct(current_val, previous_val), 2)
        score        == compute_impact_score(dlt, pct, priority_idx, total)
    IN  [dimensions     |-> [d \in Range(dims) |->
                                IF d \in DOMAIN row THEN row[d] ELSE NoneStr],
         metric         |-> metric,
         current_value  |-> Round(current_val, 4),
         previous_value |-> Round(previous_val, 4),
         delta          |-> dlt,
         delta_pct      |-> pct,
         impact_score   |-> score,
         direction      |-> Direction(dlt)]

\* The InsightRecord of one metric of one row: the loop body, lines 203-229.
InsightOf(row, dims, metric, priority_idx, total) ==
    LET current_val  == FloatOrZero(row[metric \o "_current"])
        previous_val == FloatOrZero(row[metric \o "_previous"])
        dlt          == compute_delta(current_val, previous_val)
        pct          == compute_delta_pct(current_val, previous_val)
        score        == compute_impact_score(dlt, pct, priority_idx, total)
    IN  [dimensions     |-> [d \in Range(dims) |->
                                IF d \in DOMAIN row THEN row[d] ELSE NoneStr],
         metric         |-> metric,
         current_value  |-> Round(current_val, 4),
         previous_value |-> Round(previous_val, 4),
         delta          |-> Round(dlt, 4),
         delta_pct      |-> Round(pct, 2),
         impact_score   |-> score,
         direction      |-> Direction(dlt)]

\* Mutant: the priority index counts only the KPIs that were not skipped.
RowInsights_renumbered(row, dims, kpis, i) ==
    LET present == SelectSeq(kpis, LAMBDA m :
                       /\ (m \o "_current") \in DOMAIN row
                       /\ (m \o "_previous") \in DOMAIN row)
    IN  [k \in 1..Len(present) |->
            InsightOf(row, dims, present[k], k - 1, Len(kpis))]

\* The records of one row: every KPI in priority order, skipping a KPI
\* whose _current or _previous column the row lacks (lines 202-207).
RECURSIVE RowInsights(_, _, _, _)
RowInsights(row, dims, kpis, i) ==
    IF i > Len(kpis) THEN <<>>
    ELSE LET metric == kpis[i]
             rest   == RowInsights(row, dims, kpis, i + 1)
         IN  IF (metric \o "_current") \notin DOMAIN row
                \/ (metric \o "_previous") \notin DOMAIN row
             THEN rest
             ELSE <<InsightOf(row, dims, metric, i - 1, Len(kpis))>> \o rest

extract_insights(df, dims, kpis) ==
    Flatten([r \in DOMAIN df.rows |-> RowInsights(df.rows[r], dims, kpis, 1)])

---------------------------------------------------------------------------
(* insights.py: rank_insights                                              *)

\* Optional[int]: None is <<>>, an integer k is <<k>>.
None == <<>>

Some(k) == <<k>>

\* Python truthiness of an Optional[int]: None and 0 are false.
Truthy(opt) == opt # None /\ opt[1] # 0

Min2(a, b) == IF a < b THEN a ELSE b

Max2(a, b) == IF a > b THEN a ELSE b

\* Python's s[:k], k of either sign.
SliceTo(s, k) ==
    IF k >= 0 THEN SubSeq(s, 1, Min2(k, Len(s)))
    ELSE SubSeq(s, 1, Max2(0, Len(s) + k))

\* Mutant: x goes before the elements of equal score (ties reversed).
RECURSIVE InsertDesc_unstable(_, _)
InsertDesc_unstable(s, x) ==
    IF s = <<>> THEN <<x>>
    ELSE IF FLe(Head(s).impact_score, x.impact_score)
         THEN <<x>> \o s
         ELSE <<Head(s)>> \o InsertDesc_unstable(Tail(s), x)

\* x goes after every element whose score is >= its own: equal scores keep
\* their order of arrival.
RECURSIVE InsertDesc(_, _)
InsertDesc(s, x) ==
    IF s = <<>> THEN <<x>>
    ELSE IF FLt(Head(s).impact_score, x.impact_score)
         THEN <<x>> \o s
         ELSE <<Head(s)>> \o InsertDesc(Tail(s), x)

\* sorted(s, key = impact_score, reverse = True): stable, descending.
RECURSIVE SortedDesc(_)
SortedDesc(s) ==
    IF s = <<>> THEN <<>>
    ELSE InsertDesc(SortedDesc(SubSeq(s, 1, Len(s) - 1)), s[Len(s)])

MeetsImpact(rec, threshold) == FLe(threshold, rec.impact_score)

FilterImpact(s, threshold) ==
    LET Keep(rec) == MeetsImpact(rec, threshold) IN SelectSeq(s, Keep)

Truncate(s, opt) == IF Truthy(opt) THEN SliceTo(s, opt[1]) ELSE s

rank_insights(s, opt_top_n, threshold) ==
    Truncate(SortedDesc(FilterImpact(s, threshold)), opt_top_n)

---------------------------------------------------------------------------
(* insights.py: generate_insight_summary                                   *)

\* Mutant: the first "up" record of the ranked list.
MaxByDeltaPct_first(s) == s[1]

\* max(s, key=lambda x: x.delta_pct) of a non-empty list: the first element
\* that no later element exceeds.
RECURSIVE MaxByDeltaPct(_)
MaxByDeltaPct(s) ==
    IF Len(s) = 1 THEN s[1]
    ELSE LET best == MaxByDeltaPct(SubSeq(s, 1, Len(s) - 1))
         IN  IF FLt(best.delta_pct, s[Len(s)].delta_pct) THEN s[Len(s)]
             ELSE best

\* min(s, key=lambda x: x.delta_pct) of a non-empty list.
RECURSIVE MinByDeltaPct(_)
MinByDeltaPct(s) ==
    IF Len(s) = 1 THEN s[1]
    ELSE LET best == MinByDeltaPct(SubSeq(s, 1, Len(s) - 1))
         IN  IF FLt(s[Len(s)].delta_pct, best.delta_pct) THEN s[Len(s)]
             ELSE best

\* The summary dict; an absent key and a None value are None.
generate_insight_summary(s) ==
    IF s = <<>>
    THEN [total_insights |-> 0, total_gains |-> None, total_drops |-> None,
          top_mover |-> None, biggest_gain |-> None, biggest_drop |-> None]
    ELSE LET gains == SelectSeq(s, LAMBDA i : i.direction = "up")
             drops == SelectSeq(s, LAMBDA i : i.direction = "down")
         IN  [total_insights |-> Len(s),
              total_gains    |-> Some(Len(gains)),
              total_drops    |-> Some(Len(drops)),
              top_mover      |-> Some(s[1]),
              biggest_gain   |->
                  IF gains = <<>> THEN None
                  ELSE Some(MaxByDeltaPct(gains)),
              biggest_drop   |->
                  IF drops = <<>> THEN None
                  ELSE Some(MinByDeltaPct(drops))]

---------------------------------------------------------------------------
(* metrics.py: parse_formula, compute_derived_metric                       *)
(* A formula string is modelled as its sequence of tokens: identifiers     *)
(* (\w+), single symbols, and " " for a run of whitespace.                 *)

Operators == {"+", "-", "*", "/"}

Whitespace == {" "}

\* Symbols that are neither \w+ nor one of the four operators.
OtherSymbols == {"%", "(", ")", "^"}

IsIdentifier(tok) == tok \notin (Operators \cup Whitespace \cup OtherSymbols)

\* The regex ^\s*(\w+)\s*([+\-*/])\s*(\w+)\s*$ on the tokens.
parse_formula(formula) ==
    LET IsInk(tok) == tok \notin Whitespace
        toks       == SelectSeq(formula, IsInk)
    IN  IF /\ Len(toks) = 3
           /\ IsIdentifier(toks[1])
           /\ toks[2] \in Operators
           /\ IsIdentifier(toks[3])
        THEN [ok |-> TRUE, operand1 |-> toks[1], operator |-> toks[2],
              operand2 |-> toks[3]]
        ELSE [ok |-> FALSE, operand1 |-> "", operator |-> "", operand2 |-> ""]

EmptyTable == [columns |-> <<>>, dtypes |-> <<>>, rows |-> <<>>]

HasColumn(df, c) == c \in Range(df.columns)

Ok(df) == [ok |-> TRUE, error |-> "", table |-> df]

Err(e) == [ok |-> FALSE, error |-> e, table |-> EmptyTable]

\* Element-wise float arithmetic of Polars: a null operand gives null.
AddCell(a, b) == IF a = Null \/ b = Null THEN Null ELSE FAdd(a, b)

SubCell(a, b) == IF a = Null \/ b = Null THEN Null ELSE FSub(a, b)

MulCell(a, b) == IF a = Null \/ b = Null THEN Null ELSE FMul(a, b)

\* Mutant: the plain quotient col1 / col2, without the zero guard.
DivCell_unguarded(a, b) == IF a = Null \/ b = Null THEN Null ELSE FDiv(a, b)

\* pl.when(col2 != 0).then(col1 / col2).otherwise(0.0): a null predicate
\* (null divisor) takes the otherwise branch.
DivCell(a, b) ==
    IF b # Null /\ ~FEq(b, Q(0))
    THEN (IF a = Null THEN Null ELSE FDiv(a, b))
    ELSE Q(0)

ApplyOperator(op, a, b) ==
    CASE op = "+" -> AddCell(a, b)
      [] op = "-" -> SubCell(a, b)
      [] op = "*" -> MulCell(a, b)
      [] op = "/" -> DivCell(a, b)

\* df.with_columns(expr.alias(name)): a column of that name is replaced in
\* place, otherwise the column is appended.
WithColumn(df, name, cells) ==
    [columns |-> IF HasColumn(df, name) THEN df.columns
                 ELSE Append(df.columns, name),
     dtypes  |-> [c \in Range(df.columns) \cup {name} |->
                     IF c = name THEN "f64" ELSE df.dtypes[c]],
     rows    |-> [r \in DOMAIN df.rows |->
                     [c \in Range(df.columns) \cup {name} |->
                         IF c = name THEN cells[r] ELSE df.rows[r][c]]]]

\* Mutant: only the first operand is looked up before the expression is
\* built; a missing second operand fails in the evaluation.
compute_derived_metric_first_operand(df, metric_name, formula) ==
    LET parsed == parse_formula(formula)
    IN  IF ~parsed.ok THEN Err("FormulaError")
        ELSE IF ~HasColumn(df, parsed.operand1) THEN Err("ColumnNotFound")
        ELSE IF ~HasColumn(df, parsed.operand2) THEN Err("ComputeError")
        ELSE IF df.dtypes[parsed.operand1] = "str"
                \/ df.dtypes[parsed.operand2] = "str"
             THEN Err("ComputeError")
        ELSE Ok(WithColumn(df, metric_name,
                 [r \in DOMAIN df.rows |->
                     ApplyOperator(parsed.operator,
                                   df.rows[r][parsed.operand1],
                                   df.rows[r][parsed.operand2])]))

compute_derived_metric(df, metric_name, formula) ==
    LET parsed == parse_formula(formula)
    IN  IF ~parsed.ok THEN Err("FormulaError")
        ELSE IF ~HasColumn(df, parsed.operand1) THEN Err("ColumnNotFound")
        ELSE IF ~HasColumn(df, parsed.operand2) THEN Err("ColumnNotFound")
        ELSE IF df.dtypes[parsed.operand1] = "str"
                \/ df.dtypes[parsed.operand2] = "str"
             THEN Err("ComputeError")
        ELSE Ok(WithColumn(df, metric_name,
                 [r \in DOMAIN df.rows |->
                     ApplyOperator(parsed.operator,
                                   df.rows[r][parsed.operand1],
                                   df.rows[r][parsed.operand2])]))

---------------------------------------------------------------------------
(* metrics.py: aggregate_by_dimensions                                     *)

\* pl.col(m).sum(): nulls are skipped, the sum of no value is 0.
RECURSIVE SumCells(_, _)
SumCells(rows, m) ==
    IF rows = <<>> THEN Q(0)
    ELSE LET v == Head(rows)[m]
         IN  IF v = Null THEN SumCells(Tail(rows), m)
             ELSE FAdd(v, SumCells(Tail(rows), m))

\* The requested metrics that are columns of df, in the requested order.
ValidMetrics(df, metrics) ==
    LET Present(m) == HasColumn(df, m) IN SelectSeq(metrics, Present)

GroupKey(row, dims) == [d \in Range(dims) |-> row[d]]

GroupKeys(df, dims) == {GroupKey(df.rows[r], dims) : r \in DOMAIN df.rows}

\* group_by does not maintain order: any order of the groups may come out.
GroupOrders(df, dims) ==
    LET keys == GroupKeys(df, dims)
    IN  {o \in [1..Cardinality(keys) -> keys] : Range(o) = keys}

RowsOfGroup(df, dims, key) ==
    LET InGroup(row) == GroupKey(row, dims) = key
    IN  SelectSeq(df.rows, InGroup)

\* df.select([sum(m) ...]): one row of sums; no expression, no row at all.
SelectSums(df, valid) ==
    IF valid = <<>> THEN EmptyTable
    ELSE [columns |-> valid,
          dtypes  |-> [m \in Range(valid) |-> df.dtypes[m]],
          rows    |-> <<[m \in Range(valid) |-> SumCells(df.rows, m)]>>]

GroupSums(df, dims, valid, order) ==
    [columns |-> dims \o valid,
     dtypes  |-> [c \in Range(dims) \cup Range(valid) |-> df.dtypes[c]],
     rows    |-> [g \in DOMAIN order |->
                     [c \in Range(dims) \cup Range(valid) |->
                         IF c \in Range(dims) THEN order[g][c]
                         ELSE SumCells(RowsOfGroup(df, dims, order[g]), c)]]]

\* order: the order in which group_by happens to emit the groups.
aggregate_by_dimensions(df, dims, metrics, order) ==
    IF dims = <<>> THEN Ok(SelectSums(df, ValidMetrics(df, metrics)))
    ELSE IF \E d \in Range(dims) : ~HasColumn(df, d) THEN Err("MissingColumn")
    ELSE IF ValidMetrics(df, metrics) = <<>> THEN Err("NoValidMetrics")
    ELSE Ok(GroupSums(df, dims, ValidMetrics(df, metrics), order))

---------------------------------------------------------------------------
(* metrics.py: split_by_period                                             *)
(* A date is its day of November 2025; a cell of a Date column is a date   *)
(* or Null.                                                                *)

DateOf(day) == [ordinal |-> day]

\* The strings the comparison section is given, with the day that
\* "%Y-%m-%d" reads from each.
IsoDates ==
    ("2025-11-17" :> 17) @@ ("2025-11-23" :> 23) @@ ("2025-11-24" :> 24)
        @@ ("2025-11-30" :> 30)

\* datetime.strptime(s, "%Y-%m-%d").date(): ValueError for any other text.
strptime(s) ==
    IF s \in DOMAIN IsoDates
    THEN [ok |-> TRUE, date |-> DateOf(IsoDates[s])]
    ELSE [ok |-> FALSE, date |-> DateOf(0)]

\* Mutant: the end of the period is excluded.
InPeriod_exclusive(cell, start, end) ==
    /\ cell # Null
    /\ cell.ordinal >= start.ordinal
    /\ cell.ordinal < end.ordinal

\* (pl.col(date_col) >= start) & (pl.col(date_col) <= end): a null date
\* gives a null predicate, and filter drops the row.
InPeriod(cell, start, end) ==
    /\ cell # Null
    /\ cell.ordinal >= start.ordinal
    /\ cell.ordinal <= end.ordinal

\* df.filter(...): the rows that satisfy the predicate, in table order.
FilterPeriod(df, date_col, start, end) ==
    [df EXCEPT !.rows =
        SelectSeq(df.rows, LAMBDA row : InPeriod(row[date_col], start, end))]

\* Mutant: the previous period is taken from the rows the current period
\* left.
split_by_period_partition(df, date_col, cmp) ==
    LET cs == strptime(cmp.current_start)
        ce == strptime(cmp.current_end)
        ps == strptime(cmp.previous_start)
        pe == strptime(cmp.previous_end)
    IN  IF ~(cs.ok /\ ce.ok /\ ps.ok /\ pe.ok)
        THEN [ok |-> FALSE, current |-> EmptyTable, previous |-> EmptyTable]
        ELSE [ok |-> TRUE,
              current  |-> FilterPeriod(df, date_col, cs.date, ce.date),
              previous |->
                  [df EXCEPT !.rows =
                      SelectSeq(df.rows, LAMBDA row :
                          /\ InPeriod(row[date_col], ps.date, pe.date)
                          /\ ~InPeriod(row[date_col], cs.date, ce.date))]]

split_by_period(df, date_col, cmp) ==
    LET cs == strptime(cmp.current_start)
        ce == strptime(cmp.current_end)
        ps == strptime(cmp.previous_start)
        pe == strptime(cmp.previous_end)
    IN  IF ~(cs.ok /\ ce.ok /\ ps.ok /\ pe.ok)
        THEN [ok |-> FALSE, current |-> EmptyTable, previous |-> EmptyTable]
        ELSE [ok |-> TRUE,
              current  |-> FilterPeriod(df, date_col, cs.date, ce.date),
              previous |-> FilterPeriod(df, date_col, ps.date, pe.date)]

---------------------------------------------------------------------------
(* ingest.py: load_all_sources, join_sources_duckdb, join_sources_polars   *)
(* The sources dict is a sequence of <<name, table>> in insertion order.   *)

SourceNames(srcs) == [i \in DOMAIN srcs |-> srcs[i][1]]

HasSource(srcs, name) == \E i \in DOMAIN srcs : srcs[i][1] = name

SourceTable(srcs, name) ==
    srcs[CHOOSE i \in DOMAIN srcs : srcs[i][1] = name][2]

LoadError(name) == "LoadError:" \o name

\* Mutant: a source that fails to load is left out and the loop goes on.
LoadStep_skip_failed(srcs, names, i, outcome) ==
    LET next == IF outcome.ok THEN Append(srcs, <<names[i], outcome.table>>)
                ELSE srcs
    IN  [pc |-> IF i = Len(names) THEN "loaded" ELSE "loading",
         ld_sources |-> next,
         returned |-> IF i = Len(names) THEN next ELSE <<>>,
         error |-> ""]

\* One iteration of the loop of load_all_sources: the exception of
\* load_source leaves the function; after the last source the dict is
\* returned.
LoadStep(srcs, names, i, outcome) ==
    IF ~outcome.ok
    THEN [pc |-> "load_failed", ld_sources |-> srcs, returned |-> <<>>,
          error |-> LoadError(names[i])]
    ELSE LET next == Append(srcs, <<names[i], outcome.table>>)
         IN  [pc |-> IF i = Len(names) THEN "loaded" ELSE "loading",
              ld_sources |-> next,
              returned |-> IF i = Len(names) THEN next ELSE <<>>,
              error |-> ""]

\* join_keys = primary_dims.copy(), plus the date column of the primary
\* source if it is not among them.
JoinKeys(config) ==
    IF config.date_col \in Range(config.primary_dims)
    THEN config.primary_dims
    ELSE Append(config.primary_dims, config.date_col)

\* df.select(cols)
SelectColumns(df, cols) ==
    [columns |-> cols,
     dtypes  |-> [c \in Range(cols) |-> df.dtypes[c]],
     rows    |-> [r \in DOMAIN df.rows |->
                     [c \in Range(cols) |-> df.rows[r][c]]]]

\* left.join(right, on=keys, how="left"), and SQL's LEFT JOIN ... ON: every
\* left row once per matching right row, or once with nulls in the columns
\* of the right table when nothing matches.
LeftJoin(left, right, keys) ==
    LET newCols == SelectSeq(right.columns, LAMBDA c : ~HasColumn(left, c))
        allCols == Range(left.columns) \cup Range(newCols)
        Matches(row) ==
            SelectSeq(right.rows,
                      LAMBDA m : \A k \in Range(keys) : m[k] = row[k])
        Joined(row, m) ==
            [c \in allCols |-> IF HasColumn(left, c) THEN row[c] ELSE m[c]]
        Unmatched(row) ==
            [c \in allCols |-> IF HasColumn(left, c) THEN row[c] ELSE Null]
        RowsFor(row) ==
            LET ms == Matches(row)
            IN  IF ms = <<>> THEN <<Unmatched(row)>>
                ELSE [i \in DOMAIN ms |-> Joined(row, ms[i])]
    IN  [columns |-> left.columns \o newCols,
         dtypes  |-> [c \in allCols |->
                         IF HasColumn(left, c) THEN left.dtypes[c]
                         ELSE right.dtypes[c]],
         rows    |-> Flatten([i \in DOMAIN left.rows |->
                                 RowsFor(left.rows[i])])]

\* The loop of join_sources_polars over the sources other than the primary.
RECURSIVE PolarsJoinLoop(_, _, _, _)
PolarsJoinLoop(result, srcs, primary_name, join_keys) ==
    IF srcs = <<>> THEN result
    ELSE LET source_name == Head(srcs)[1]
             df          == Head(srcs)[2]
             common_keys ==
                 SelectSeq(join_keys,
                           LAMBDA k : HasColumn(df, k) /\ HasColumn(result, k))
             right_cols  ==
                 SelectSeq(df.columns,
                           LAMBDA c : ~HasColumn(result, c)
                                      \/ c \in Range(common_keys))
             joined      ==
                 IF source_name = primary_name \/ common_keys = <<>>
                 THEN result
                 ELSE LeftJoin(result, SelectColumns(df, right_cols),
                               common_keys)
         IN  PolarsJoinLoop(joined, Tail(srcs), primary_name, join_keys)

join_sources_polars(srcs, config) ==
    IF Len(srcs) = 1 THEN Ok(srcs[1][2])
    ELSE IF ~HasSource(srcs, config.primary_source) THEN Err("KeyError")
    ELSE Ok(PolarsJoinLoop(SourceTable(srcs, config.primary_source), srcs,
                           config.primary_source, JoinKeys(config)))

\* The orders in which a query without ORDER BY may return its rows.
RECURSIVE Orderings(_)
Orderings(rows) ==
    IF rows = <<>> THEN {<<>>}
    ELSE UNION {{<<rows[i]>> \o rest :
                    rest \in Orderings(SubSeq(rows, 1, i - 1)
                                       \o SubSeq(rows, i + 1, Len(rows)))}
                : i \in DOMAIN rows}

\* Of a secondary table: the keys of its ON clause, and its columns in the
\* SELECT list.
OnKeys(df, join_keys) == SelectSeq(join_keys, LAMBDA k : HasColumn(df, k))

SelectedColumns(df, primary, join_keys) ==
    SelectSeq(df.columns,
              LAMBDA c : ~HasColumn(primary, c) /\ c \notin Range(join_keys))

\* The query cannot be bound: an ON clause names a key the primary table
\* lacks, or the SELECT list names a table that is not joined.
BinderError(srcs, primary_name, join_keys) ==
    LET primary == SourceTable(srcs, primary_name)
    IN  \E i \in DOMAIN srcs :
           /\ srcs[i][1] # primary_name
           /\ \/ \E k \in Range(OnKeys(srcs[i][2], join_keys)) :
                     ~HasColumn(primary, k)
              \/ /\ OnKeys(srcs[i][2], join_keys) = <<>>
                 /\ SelectedColumns(srcs[i][2], primary, join_keys) # <<>>

\* FROM primary LEFT JOIN t1 ON ... LEFT JOIN t2 ON ..., in table order.
RECURSIVE SqlJoinLoop(_, _, _, _, _)
SqlJoinLoop(result, primary, srcs, primary_name, join_keys) ==
    IF srcs = <<>> THEN result
    ELSE LET df     == Head(srcs)[2]
             on     == OnKeys(df, join_keys)
             joined ==
                 IF Head(srcs)[1] = primary_name \/ on = <<>> THEN result
                 ELSE LeftJoin(result,
                               SelectColumns(df,
                                   on \o SelectedColumns(df, primary,
                                                         join_keys)),
                               on)
         IN  SqlJoinLoop(joined, primary, Tail(srcs), primary_name, join_keys)

\* Mutant: the query is built and run for a single source as well.
join_sources_duckdb_always_sql(srcs, config) ==
    {Err("DuckDBError")} \cup
    (IF ~HasSource(srcs, config.primary_source) THEN {Err("KeyError")}
     ELSE IF BinderError(srcs, config.primary_source, JoinKeys(config))
     THEN {Err("BinderError")}
     ELSE LET primary == SourceTable(srcs, config.primary_source)
              result  == SqlJoinLoop(primary, primary, srcs,
                                     config.primary_source, JoinKeys(config))
          IN  {Ok([result EXCEPT !.rows = o]) : o \in Orderings(result.rows)})

\* The outcomes of join_sources_duckdb.  A single source is returned as it
\* is.  Otherwise the engine may fail (connect, register, execute), the
\* primary source may be missing from the dict, the query may not bind, or
\* the query returns its rows in some order.
join_sources_duckdb(srcs, config) ==
    IF Len(srcs) = 1 THEN {Ok(srcs[1][2])}
    ELSE {Err("DuckDBError")} \cup
         (IF ~HasSource(srcs, config.primary_source) THEN {Err("KeyError")}
          ELSE IF BinderError(srcs, config.primary_source, JoinKeys(config))
          THEN {Err("BinderError")}
          ELSE LET primary == SourceTable(srcs, config.primary_source)
                   result  == SqlJoinLoop(primary, primary, srcs,
                                          config.primary_source,
                                          JoinKeys(config))
               IN  {Ok([result EXCEPT !.rows = o]) :
                       o \in Orderings(result.rows)})

\* 'date' in c.lower() or 'dt_' in c.lower(), over the column names of the
\* tables of the model.
DateLikeColumns == {"date"}

\* ingest_data after join_sources: the configuration of the primary source
\* is looked up, and a table without its date column is still returned when
\* one of its columns has a date-like name.
validate_date_column(df, config) ==
    IF config.primary_source \notin Range(config.source_names)
    THEN Err("KeyError")
    ELSE IF ~HasColumn(df, config.date_col)
            /\ ~\E c \in Range(df.columns) : c \in DateLikeColumns
    THEN Err("ValueError")
    ELSE Ok(df)

\* Mutant: the fallback runs whatever the primary strategy returned.
FallsBack_always(outcome) == TRUE

\* join_sources: "except Exception" around the call of join_sources_duckdb.
FallsBack(outcome) == ~outcome.ok

---------------------------------------------------------------------------
(* insights.py: join_periods                                               *)
(* A null cell of a dimension column is NoneStr, as to_dicts and           *)
(* extract_insights see it.                                                *)

\* df.rename({c: c + suffix}) for the columns not in keep.
Renamed(df, keep, suffix) ==
    LET name(c) == IF c \in Range(keep) THEN c ELSE c \o suffix
        cols    == [i \in DOMAIN df.columns |-> name(df.columns[i])]
        old(n)  == df.columns[CHOOSE i \in DOMAIN cols : cols[i] = n]
    IN  [columns |-> cols,
         dtypes  |-> [n \in Range(cols) |-> df.dtypes[old(n)]],
         rows    |-> [r \in DOMAIN df.rows |->
                         [n \in Range(cols) |-> df.rows[r][old(n)]]]]

\* left.join(right, how="cross"): every pair of rows, left-major.
CrossJoin(left, right) ==
    [columns |-> left.columns \o right.columns,
     dtypes  |-> left.dtypes @@ right.dtypes,
     rows    |-> Flatten([i \in DOMAIN left.rows |->
                    [j \in DOMAIN right.rows |->
                        left.rows[i] @@ right.rows[j]]])]

NullOf(dtype) == IF dtype = "str" THEN NoneStr ELSE Null

\* left.join(right, on=keys, how="outer").  Every left row with each right
\* row of the same key, the left rows without a match, then the right rows
\* without a match.  With coalesce the key columns hold the key of
\* whichever side has the row; without it they hold the left key, and the
\* right key is a column of its own named <key>_right.
OuterJoin(left, right, keys, coalesce) ==
    LET rightName(c) == IF c \in Range(keys) THEN c \o "_right" ELSE c
        rightCols == IF coalesce
                     THEN SelectSeq(right.columns,
                                    LAMBDA c : c \notin Range(keys))
                     ELSE [i \in DOMAIN right.columns |->
                              rightName(right.columns[i])]
        rightOld(n) ==
            right.columns[CHOOSE i \in DOMAIN right.columns :
                              rightName(right.columns[i]) = n]
        allCols == Range(left.columns) \cup Range(rightCols)
        dtypes == [n \in allCols |->
                      IF HasColumn(left, n) THEN left.dtypes[n]
                      ELSE right.dtypes[rightOld(n)]]
        SameKey(a, b) ==
            \A k \in Range(keys) : a[k] # NoneStr /\ a[k] = b[k]
        Matches(row) == SelectSeq(right.rows, LAMBDA m : SameKey(row, m))
        Both(row, m) ==
            [n \in allCols |->
                IF HasColumn(left, n) THEN row[n] ELSE m[rightOld(n)]]
        LeftOnly(row) ==
            [n \in allCols |->
                IF HasColumn(left, n) THEN row[n] ELSE NullOf(dtypes[n])]
        RightOnly(m) ==
            [n \in allCols |->
                IF n \in Range(keys) /\ coalesce THEN m[n]
                ELSE IF HasColumn(left, n) THEN NullOf(dtypes[n])
                ELSE m[rightOld(n)]]
        RowsFor(row) ==
            LET ms == Matches(row)
            IN  IF ms = <<>> THEN <<LeftOnly(row)>>
                ELSE [i \in DOMAIN ms |-> Both(row, ms[i])]
        unmatched ==
            SelectSeq(right.rows,
                      LAMBDA m : \A i \in DOMAIN left.rows :
                                     ~SameKey(left.rows[i], m))
    IN  [columns |-> left.columns \o rightCols,
         dtypes  |-> dtypes,
         rows    |-> Flatten([i \in DOMAIN left.rows |->
                                 RowsFor(left.rows[i])])
                     \o [i \in DOMAIN unmatched |-> RightOnly(unmatched[i])]]

\* The columns whose name ends with _current or _previous: the columns the
\* two renames produced.
PeriodColumns(current_renamed, previous_renamed, dims) ==
    {c \in Range(current_renamed.columns) \cup
           Range(previous_renamed.columns) : c \notin Range(dims)}

\* pl.col(col).fill_null(0) on each of the columns in cols.
FillNull(df, cols) ==
    [df EXCEPT !.rows =
        [r \in DOMAIN df.rows |->
            [c \in DOMAIN df.rows[r] |->
                IF c \in cols /\ df.rows[r][c] = NullOf(df.dtypes[c])
                THEN Q(0) ELSE df.rows[r][c]]]]

\* join_periods.  coalesce is the behaviour of how="outer" in the installed
\* Polars: key columns coalesced (before 0.20) or kept apart (since).
join_periods(cur_df, prev_df, dims, coalesce) ==
    IF dims = <<>>
    THEN CrossJoin(Renamed(cur_df, <<>>, "_current"),
                   Renamed(prev_df, <<>>, "_previous"))
    ELSE LET current_renamed  == Renamed(cur_df, dims, "_current")
             previous_renamed == Renamed(prev_df, dims, "_previous")
         IN  FillNull(OuterJoin(current_renamed, previous_renamed, dims,
                                coalesce),
                      PeriodColumns(current_renamed, previous_renamed, dims))

---------------------------------------------------------------------------
(* ingest.py: load_csv_source, load_database_source                        *)
(* The header line of a CSV file is its sequence of characters, the       *)
(* newline aside.                                                          *)

\* str.count(ch)
CountChar(line, ch) == Cardinality({i \in DOMAIN line : line[i] = ch})

\* The delimiter chosen by lines 61-69: comma unless semicolon, or tab,
\* outnumbers both of the others.
AutoDetectDelimiter(line) ==
    LET semicolon_count == CountChar(line, ";")
        comma_count     == CountChar(line, ",")
        tab_count       == CountChar(line, "\t")
    IN  IF semicolon_count > comma_count /\ semicolon_count > tab_count
        THEN ";"
        ELSE IF tab_count > comma_count /\ tab_count > semicolon_count
        THEN "\t"
        ELSE ","

\* The fields of the header line under a separator, as
\* pl.read_csv(file_path, separator=delimiter) names the columns.
RECURSIVE SplitLine(_, _)
SplitLine(line, sep) ==
    IF \A i \in DOMAIN line : line[i] # sep THEN <<line>>
    ELSE LET k == CHOOSE i \in DOMAIN line :
                      line[i] = sep /\ \A j \in 1..(i - 1) : line[j] # sep
         IN  <<SubSeq(line, 1, k - 1)>>
                 \o SplitLine(SubSeq(line, k + 1, Len(line)), sep)

\* load_csv_source: a missing file and a file without a header line raise.
load_csv_source(exists, line) ==
    IF ~exists THEN [ok |-> FALSE, delimiter |-> "", columns |-> <<>>]
    ELSE IF line = <<>>
    THEN [ok |-> FALSE, delimiter |-> AutoDetectDelimiter(line),
          columns |-> <<>>]
    ELSE [ok |-> TRUE, delimiter |-> AutoDetectDelimiter(line),
          columns |-> SplitLine(line, AutoDetectDelimiter(line))]

\* columns.append(c) for the elements of cs that columns lacks: lines
\* 165-170.
RECURSIVE AppendMissing(_, _)
AppendMissing(cols, cs) ==
    IF cs = <<>> THEN cols
    ELSE AppendMissing(IF Head(cs) \in Range(cols) THEN cols
                       ELSE Append(cols, Head(cs)),
                       Tail(cs))

\* The SELECT list of load_database_source, lines 160-176; <<"*">> is
\* SELECT *.  An empty date_col and a join_key of None or [] are falsy.
SelectList(config) ==
    LET listed == config.dimensions \o config.metrics
        dated  == IF config.date_col # "" THEN
                     AppendMissing(listed, <<config.date_col>>)
                  ELSE listed
        cols   == AppendMissing(dated, config.join_key)
    IN  IF cols # <<>> THEN cols ELSE <<"*">>

---------------------------------------------------------------------------
(* session_manager.py: DashboardSession and SessionManager.  Time is       *)
(* counted in hours; the storage directory and the cache map a session id  *)
(* to Some(session) or None.                                               *)

SessionIds == {"s1", "s2"}

Tokens == {"t1", "t2"}

\* Python truthiness of an Optional[str]: None and "" are false.
TruthyStr(opt) == opt # None /\ opt[1] # ""

\* datetime.now() > datetime.fromisoformat(self.expires_at)
is_expired(session, t) == t > session.expires_at

\* Mutant: the entry of the cache is dropped and the file is left.
delete_session_cache_only(fs, ch, id) ==
    [files |-> fs, cache |-> [ch EXCEPT ![id] = None]]

\* delete_session: unlink the file if it exists, drop the cache entry.
delete_session(fs, ch, id) ==
    [files |-> [fs EXCEPT ![id] = None], cache |-> [ch EXCEPT ![id] = None]]

\* The session that comes out of either path of get_session.
CheckSession(session, fs, ch, t, id, token, cached) ==
    IF is_expired(session, t)
    THEN LET d == delete_session(fs, ch, id)
         IN  [files |-> d.files, cache |-> d.cache, result |-> None]
    ELSE IF TruthyStr(token) /\ session.token # token[1]
    THEN [files |-> fs, cache |-> ch, result |-> None]
    ELSE [files |-> fs,
          cache |-> IF cached THEN ch ELSE [ch EXCEPT ![id] = Some(session)],
          result |-> Some(session)]

\* get_session: the cache first, then the file of the session.
get_session(fs, ch, t, id, token) ==
    IF ch[id] # None
    THEN CheckSession(ch[id][1], fs, ch, t, id, token, TRUE)
    ELSE IF fs[id] = None
    THEN [files |-> fs, cache |-> ch, result |-> None]
    ELSE CheckSession(fs[id][1], fs, ch, t, id, token, FALSE)

\* create_session: the session is saved to its file and cached.
create_session(fs, ch, t, id, token, expiry_hours) ==
    LET session == [session_id |-> id, token |-> token,
                    expires_at |-> t + expiry_hours, audio_url |-> None]
    IN  [files |-> [fs EXCEPT ![id] = Some(session)],
         cache |-> [ch EXCEPT ![id] = Some(session)],
         result |-> session]

\* update_session: _save_session, then the cache entry.
update_session(fs, ch, session) ==
    [files |-> [fs EXCEPT ![session.session_id] = Some(session)],
     cache |-> [ch EXCEPT ![session.session_id] = Some(session)]]

\* cleanup_expired: delete_session for every file whose session is expired.
cleanup_expired(fs, ch, t) ==
    LET expired == {id \in DOMAIN fs :
                       fs[id] # None /\ is_expired(fs[id][1], t)}
    IN  [files |-> [id \in DOMAIN fs |->
                       IF id \in expired THEN None ELSE fs[id]],
         cache |-> [id \in DOMAIN ch |->
                       IF id \in expired THEN None ELSE ch[id]],
         count |-> Cardinality(expired)]

---------------------------------------------------------------------------
(* Bounds and inputs                                                       *)

MaxMetrics == 3

MaxRows == 2

DefaultTopN == 20

MaxHeaderLen == 4

MaxTime == 3

MaxThreads == 2

\* The stages not taking part in a specification rest in these states.
ScoreIdle ==
    /\ sc_pc = "idle"
    /\ current = NaNQ /\ previous = NaNQ
    /\ metric_priority = 0 /\ total_metrics = 0
    /\ delta = NaNQ /\ delta_pct = NaNQ /\ impact = NaNQ

InsightsIdle ==
    /\ in_pc = "idle"
    /\ joined_df = EmptyTable
    /\ dimensions = <<>> /\ kpi_priority = <<>>
    /\ insights = <<>> /\ ranked = <<>> /\ reranked = <<>>
    /\ top_n = None /\ min_impact = Q(0)
    /\ summary = <<>>

MetricsIdle ==
    /\ m_pc = "idle"
    /\ m_input = EmptyTable /\ m_df = EmptyTable /\ m_prev = EmptyTable
    /\ derived_metrics = <<>> /\ m_i = 0 /\ m_error = ""
    /\ agg_dims = <<>> /\ agg_metrics = <<>> /\ m_agg = EmptyTable

SplitIdle ==
    /\ sp_pc = "idle"
    /\ sp_input = EmptyTable /\ sp_tried = <<>> /\ sp_error = ""
    /\ sp_df = EmptyTable
    /\ comparison = <<>>
    /\ current_df = EmptyTable /\ previous_df = EmptyTable

IngestIdle ==
    /\ ig_pc = "idle"
    /\ ig_config = <<>>
    /\ ig_i = 0
    /\ ld_sources = <<>> /\ sources = <<>>
    /\ duckdb_calls = 0 /\ polars_calls = 0
    /\ duckdb_error = "" /\ ig_error = ""
    /\ unified = EmptyTable

JoinIdle ==
    /\ jp_pc = "idle"
    /\ current_agg = EmptyTable /\ previous_agg = EmptyTable
    /\ jp_dims = <<>>
    /\ jp_joined = EmptyTable
    /\ jp_insights = <<>>

LoaderIdle ==
    /\ lo_pc = "idle"
    /\ first_line = <<>> /\ delimiter = "" /\ csv_columns = <<>>
    /\ source_config = <<>> /\ query = <<>>

SessionIdle ==
    /\ ss_pc = "idle"
    /\ now = 0
    /\ session_files = <<>> /\ cache = <<>>
    /\ held = None /\ last_call = <<>> /\ got = None

ManagerIdle ==
    /\ mg_pc = <<>> /\ requested = <<>>
    /\ cls_instance = 0 /\ cls_current_storage_dir = None /\ cls_lock = 0
    /\ heap = <<>> /\ self_obj = <<>> /\ call_result = <<>>

---------------------------------------------------------------------------
(* Scoring one (current, previous) pair, as the body of the loop of        *)
(* extract_insights does: delta, then delta_pct, then the impact score.    *)

ScoreValues == {Q(-2), Q(-1), Q(0), Frac(1, 2), Q(1), Q(3), Q(200), Q(300)}

\* Every difference of two inputs: the deltas the scoring can be given.
ScoreDeltas == {FSub(a, b) : a, b \in ScoreValues}

ScoreInit ==
    /\ sc_pc = "start"
    /\ current \in ScoreValues
    /\ previous \in ScoreValues
    /\ total_metrics \in 1..MaxMetrics
    /\ metric_priority \in 0..(total_metrics - 1)
    /\ delta = NaNQ /\ delta_pct = NaNQ /\ impact = NaNQ
    /\ InsightsIdle /\ MetricsIdle /\ SplitIdle /\ IngestIdle
    /\ JoinIdle
    /\ LoaderIdle
    /\ SessionIdle
    /\ ManagerIdle

ComputeDelta ==
    /\ sc_pc = "start"
    /\ delta' = compute_delta(current, previous)
    /\ sc_pc' = "delta"
    /\ UNCHANGED <<current, previous, metric_priority, total_metrics,
                   delta_pct, impact>>
    /\ UNCHANGED <<insightVars, metricVars, splitVars, ingestVars,
                 joinVars,
                 loaderVars,
                 sessionVars,
                 managerVars>>

ComputeDeltaPct ==
    /\ sc_pc = "delta"
    /\ delta_pct' = compute_delta_pct(current, previous)
    /\ sc_pc' = "pct"
    /\ UNCHANGED <<current, previous, metric_priority, total_metrics,
                   delta, impact>>
    /\ UNCHANGED <<insightVars, metricVars, splitVars, ingestVars,
                 joinVars,
                 loaderVars,
                 sessionVars,
                 managerVars>>

ComputeImpactScore ==
    /\ sc_pc = "pct"
    /\ impact' = compute_impact_score(delta, delta_pct, metric_priority,
                                      total_metrics)
    /\ sc_pc' = "done"
    /\ UNCHANGED <<current, previous, metric_priority, total_metrics,
                   delta, delta_pct>>
    /\ UNCHANGED <<insightVars, metricVars, splitVars, ingestVars,
                 joinVars,
                 loaderVars,
                 sessionVars,
                 managerVars>>

ScoreNext == ComputeDelta \/ ComputeDeltaPct \/ ComputeImpactScore

SpecScore == ScoreInit /\ [][ScoreNext]_vars

---------------------------------------------------------------------------
(* The insight engine: extract_insights, then rank_insights; the ranked    *)
(* list is ranked once more with the same parameters.                      *)

RegionOf(i) == "r" \o ToString(i)

\* (current, previous) cells of the clicks and of the spend columns.
ClicksPairs == {<<Q(300), Q(200)>>, <<Q(1), Q(3)>>, <<Q(0), Q(0)>>,
                <<Q(2), Q(0)>>, <<Q(0), Q(2)>>}

SpendPairs == {<<Q(2), Q(0)>>, <<Q(1), Q(3)>>}

ClicksRow(cp) == ("clicks_current" :> cp[1]) @@ ("clicks_previous" :> cp[2])

SpendRow(sp) == ("spend_current" :> sp[1]) @@ ("spend_previous" :> sp[2])

\* The metric cells of one joined row: clicks alone, or clicks and spend.
MetricCells(withSpend) ==
    IF withSpend
    THEN {ClicksRow(cp) @@ SpendRow(sp) : cp \in ClicksPairs, sp \in SpendPairs}
    ELSE {ClicksRow(cp) : cp \in ClicksPairs}

MetricColumns(withSpend) ==
    IF withSpend
    THEN <<"clicks_current", "spend_current", "clicks_previous",
           "spend_previous">>
    ELSE <<"clicks_current", "clicks_previous">>

JoinedDtypes(dims, withSpend) ==
    [c \in Range(dims) \cup Range(MetricColumns(withSpend)) |->
        IF c \in Range(dims) THEN "str" ELSE "f64"]

\* The joined tables of join_periods: with dimension "region", one row per
\* region; without dimensions, the cross join of two tables of at most one
\* row each.
JoinedTables(dims, withSpend) ==
    LET maxN == IF dims = <<>> THEN 1 ELSE MaxRows
    IN  UNION {
          {[columns |-> dims \o MetricColumns(withSpend),
            dtypes  |-> JoinedDtypes(dims, withSpend),
            rows    |-> [r \in 1..n |->
                            IF dims = <<>> THEN cells[r]
                            ELSE ("region" :> RegionOf(r)) @@ cells[r]]]
             : cells \in [1..n -> MetricCells(withSpend)]}
          : n \in 0..maxN}

DimensionChoices == {<<>>, <<"region">>}

KpiChoices == {<<"clicks">>, <<"clicks", "spend">>, <<"spend", "clicks">>}

TopNChoices == {None, Some(0), Some(1), Some(2), Some(-1), Some(DefaultTopN)}

MinImpactChoices == {Q(0), Q(5)}

InsightsInit ==
    /\ in_pc = "start"
    /\ joined_df = EmptyTable
    /\ dimensions = <<>> /\ kpi_priority = <<>>
    /\ insights = <<>> /\ ranked = <<>> /\ reranked = <<>>
    /\ top_n = None /\ min_impact = Q(0)
    /\ summary = <<>>
    /\ ScoreIdle /\ MetricsIdle /\ SplitIdle /\ IngestIdle
    /\ JoinIdle
    /\ LoaderIdle
    /\ SessionIdle
    /\ ManagerIdle

ExtractInsights ==
    /\ in_pc = "start"
    /\ \E dims \in DimensionChoices, kpis \in KpiChoices,
          withSpend \in BOOLEAN :
         \E df \in JoinedTables(dims, withSpend) :
            /\ joined_df' = df
            /\ dimensions' = dims
            /\ kpi_priority' = kpis
            /\ insights' = extract_insights(df, dims, kpis)
    /\ in_pc' = "extracted"
    /\ UNCHANGED <<top_n, min_impact, ranked, reranked, summary>>
    /\ UNCHANGED <<scoreVars, metricVars, splitVars, ingestVars,
                 joinVars,
                 loaderVars,
                 sessionVars,
                 managerVars>>

RankInsights ==
    /\ in_pc = "extracted"
    /\ \E tn \in TopNChoices, mi \in MinImpactChoices :
         /\ top_n' = tn
         /\ min_impact' = mi
         /\ ranked' = rank_insights(insights, tn, mi)
    /\ in_pc' = "ranked"
    /\ UNCHANGED <<joined_df, dimensions, kpi_priority, insights, reranked,
                   summary>>
    /\ UNCHANGED <<scoreVars, metricVars, splitVars, ingestVars,
                 joinVars,
                 loaderVars,
                 sessionVars,
                 managerVars>>

RankAgain ==
    /\ in_pc = "ranked"
    /\ reranked' = rank_insights(ranked, top_n, min_impact)
    /\ in_pc' = "reranked"
    /\ UNCHANGED <<joined_df, dimensions, kpi_priority, insights, top_n,
                   min_impact, ranked, summary>>
    /\ UNCHANGED <<scoreVars, metricVars, splitVars, ingestVars,
                 joinVars,
                 loaderVars,
                 sessionVars,
                 managerVars>>

\* generate_insights gives the ranked list to generate_insight_summary.
GenerateInsightSummary ==
    /\ in_pc = "ranked"
    /\ summary' = generate_insight_summary(ranked)
    /\ in_pc' = "summarised"
    /\ UNCHANGED <<joined_df, dimensions, kpi_priority, insights, top_n,
                   min_impact, ranked, reranked>>
    /\ UNCHANGED <<scoreVars, metricVars, splitVars, ingestVars,
                 joinVars,
                 loaderVars,
                 sessionVars,
                 managerVars>>

InsightsNext ==
    ExtractInsights \/ RankInsights \/ RankAgain \/ GenerateInsightSummary

SpecInsights == InsightsInit /\ [][InsightsNext]_vars

---------------------------------------------------------------------------
(* The metrics stage, in the order of process_metrics: the derived metrics *)
(* one formula at a time (the loop of compute_all_derived_metrics), then   *)
(* aggregate_by_dimensions.                                                *)

RegionValues == {"north", "south"}

ClicksValues == {Q(1), Q(3), Null}

ImpressionsValues == {Q(0), Q(2)}

InputColumns == <<"region", "clicks", "impressions">>

InputDtypes ==
    ("region" :> "str") @@ ("clicks" :> "i64") @@ ("impressions" :> "i64")

InputRows ==
    {("region" :> g) @@ ("clicks" :> c) @@ ("impressions" :> i) :
        g \in RegionValues, c \in ClicksValues, i \in ImpressionsValues}

InputTables ==
    UNION {{[columns |-> InputColumns, dtypes |-> InputDtypes, rows |-> rows]
              : rows \in [1..n -> InputRows]} : n \in 0..MaxRows}

\* derived_metrics mappings, in dict (insertion) order: <<name, formula>>.
DerivedMetricChoices ==
    { <<>>,
      << <<"ctr", <<"clicks", " ", "/", " ", "impressions">> >> >>,
      << <<"ctr", <<"clicks", "/", "impressions">> >>,
         <<"cpc", <<" ", "ctr", "*", "clicks", " ">> >> >>,
      << <<"cpc", <<"ctr", "*", "clicks">> >>,
         <<"ctr", <<"clicks", "/", "impressions">> >> >>,
      << <<"clicks", <<"clicks", "/", "impressions">> >> >>,
      << <<"total", <<"clicks", "+", "impressions">> >>,
         <<"diff", <<"clicks", "-", "impressions">> >> >>,
      << <<"bad", <<"clicks", "%", "impressions">> >> >>,
      << <<"byregion", <<"clicks", "/", "region">> >> >>,
      << <<"cpm", <<"clicks", "/", "cost">> >> >> }

AggDimensionChoices == {<<>>, <<"region">>, <<"country">>}

AggMetricChoices == {<<"clicks">>, <<"revenue">>, <<"ctr", "revenue", "clicks">>}

MetricsInit ==
    /\ m_input \in InputTables
    /\ derived_metrics \in DerivedMetricChoices
    /\ m_df = m_input
    /\ m_prev = EmptyTable
    /\ m_i = 1
    /\ m_pc = IF derived_metrics = <<>> THEN "derived" ELSE "deriving"
    /\ m_error = ""
    /\ agg_dims = <<>> /\ agg_metrics = <<>> /\ m_agg = EmptyTable
    /\ ScoreIdle /\ InsightsIdle /\ SplitIdle /\ IngestIdle
    /\ JoinIdle
    /\ LoaderIdle
    /\ SessionIdle
    /\ ManagerIdle

\* One iteration of the loop of compute_all_derived_metrics; an exception
\* of compute_derived_metric ends the stage.
ComputeDerivedMetric ==
    /\ m_pc = "deriving"
    /\ LET res == compute_derived_metric(m_df, derived_metrics[m_i][1],
                                         derived_metrics[m_i][2])
       IN  IF res.ok
           THEN /\ m_prev' = m_df
                /\ m_df' = res.table
                /\ m_i' = m_i + 1
                /\ m_pc' = IF m_i = Len(derived_metrics) THEN "derived"
                           ELSE "deriving"
                /\ UNCHANGED m_error
           ELSE /\ m_error' = res.error
                /\ m_pc' = "derive_failed"
                /\ UNCHANGED <<m_prev, m_df, m_i>>
    /\ UNCHANGED <<m_input, derived_metrics, agg_dims, agg_metrics, m_agg>>
    /\ UNCHANGED <<scoreVars, insightVars, splitVars, ingestVars,
                 joinVars,
                 loaderVars,
                 sessionVars,
                 managerVars>>

AggregateByDimensions ==
    /\ m_pc = "derived"
    /\ \E dims \in AggDimensionChoices, metrics \in AggMetricChoices :
         \E order \in (IF \A d \in Range(dims) : HasColumn(m_df, d)
                       THEN GroupOrders(m_df, dims) ELSE {<<>>}) :
            LET res == aggregate_by_dimensions(m_df, dims, metrics, order)
            IN  /\ agg_dims' = dims
                /\ agg_metrics' = metrics
                /\ m_agg' = res.table
                /\ m_error' = res.error
                /\ m_pc' = IF res.ok THEN "aggregated" ELSE "agg_failed"
    /\ UNCHANGED <<m_input, derived_metrics, m_df, m_prev, m_i>>
    /\ UNCHANGED <<scoreVars, insightVars, splitVars, ingestVars,
                 joinVars,
                 loaderVars,
                 sessionVars,
                 managerVars>>

MetricsNext == ComputeDerivedMetric \/ AggregateByDimensions

SpecMetrics == MetricsInit /\ [][MetricsNext]_vars

---------------------------------------------------------------------------
(* metrics.py: parse_date_column.  A string date cell is its text; each    *)
(* strptime format reads the texts written in it, as a day counted from    *)
(* 2025-10-31, and a null cell stays null under every format.              *)

FormatsToTry_day_first == <<"%Y-%m-%d", "%Y/%m/%d", "%d/%m/%Y", "%m/%d/%Y">>

FormatsToTry == <<"%Y-%m-%d", "%Y/%m/%d", "%m/%d/%Y", "%d/%m/%Y">>

\* The texts each format parses; "11/12/2025" is 12 November month-first and
\* 11 December day-first.
FormatTable ==
    ("%Y-%m-%d" :> ("2025-11-24" :> 24)) @@
    ("%Y/%m/%d" :> ("2025/11/24" :> 24)) @@
    ("%m/%d/%Y" :> (("11/24/2025" :> 24) @@ ("11/12/2025" :> 12))) @@
    ("%d/%m/%Y" :> (("24/11/2025" :> 24) @@ ("11/12/2025" :> 41))) @@
    ("%d-%m-%Y" :> ("24-11-2025" :> 24))

\* pl.col(date_col).str.to_date(fmt) on one cell: strict, a text the format
\* does not read raises.
ToDate(cell, fmt) ==
    IF cell = NoneStr THEN [ok |-> TRUE, value |-> Null]
    ELSE IF cell \in DOMAIN FormatTable[fmt]
         THEN [ok |-> TRUE, value |-> DateOf(FormatTable[fmt][cell])]
         ELSE [ok |-> FALSE, value |-> Null]

ColumnParses(df, date_col, fmt) ==
    \A i \in DOMAIN df.rows : ToDate(df.rows[i][date_col], fmt).ok

WithDateColumn(df, date_col, cells) ==
    [columns |-> df.columns,
     dtypes |-> [c \in DOMAIN df.dtypes |->
                    IF c = date_col THEN "date" ELSE df.dtypes[c]],
     rows |-> [i \in DOMAIN df.rows |->
                 [c \in DOMAIN df.rows[i] |->
                     IF c = date_col THEN cells[i] ELSE df.rows[i][c]]]]

StrToDate(df, date_col, fmt) ==
    WithDateColumn(df, date_col,
        [i \in DOMAIN df.rows |-> ToDate(df.rows[i][date_col], fmt).value])

\* The patterns of the library's format inference, by family: inference
\* settles on one pattern and may or may not read the texts of another
\* pattern of the same family.
InferFamilies ==
    {{"%Y-%m-%d", "%Y/%m/%d"}, {"%d-%m-%Y", "%d/%m/%Y"}}

InferredCell(cell, family) ==
    IF cell = NoneStr THEN Null
    ELSE LET fmt == CHOOSE f \in family : ToDate(cell, f).ok
         IN  ToDate(cell, fmt).value

\* The outcomes pl.col(date_col).str.to_date() can have on the column.
InferOutcomes(df, date_col) ==
    LET fails == [ok |-> FALSE, table |-> EmptyTable]
        byPattern ==
            {[ok |-> TRUE, table |-> StrToDate(df, date_col, fmt)] :
                fmt \in {f \in UNION InferFamilies :
                            ColumnParses(df, date_col, f)}}
        byFamily ==
            {[ok |-> TRUE,
              table |-> WithDateColumn(df, date_col,
                  [i \in DOMAIN df.rows |->
                      InferredCell(df.rows[i][date_col], family)])] :
                family \in {fam \in InferFamilies :
                    \A i \in DOMAIN df.rows :
                        \E f \in fam : ToDate(df.rows[i][date_col], f).ok}}
    IN  IF byPattern # {} THEN byPattern
        ELSE byFamily \cup {fails}

\* The loop over formats_to_try from format k on, then the inference whose
\* outcome is inferred; tried lists the attempts made.
RECURSIVE TryFormats(_, _, _, _, _)
TryFormats(df, date_col, k, tried, inferred) ==
    IF k > Len(FormatsToTry)
    THEN IF inferred.ok
         THEN [ok |-> TRUE, table |-> inferred.table,
               tried |-> Append(tried, "infer"), error |-> ""]
         ELSE [ok |-> FALSE, table |-> EmptyTable,
               tried |-> Append(tried, "infer"),
               error |-> "Cannot parse date column"]
    ELSE IF ColumnParses(df, date_col, FormatsToTry[k])
         THEN [ok |-> TRUE,
               table |-> StrToDate(df, date_col, FormatsToTry[k]),
               tried |-> Append(tried, FormatsToTry[k]), error |-> ""]
         ELSE TryFormats(df, date_col, k + 1,
                         Append(tried, FormatsToTry[k]), inferred)

parse_date_column(df, date_col, inferred) ==
    IF date_col \notin Range(df.columns)
    THEN [ok |-> FALSE, table |-> EmptyTable, tried |-> <<>>,
          error |-> "Date column not found"]
    ELSE IF df.dtypes[date_col] = "date"
    THEN [ok |-> TRUE, table |-> df, tried |-> <<>>, error |-> ""]
    ELSE IF df.dtypes[date_col] = "datetime"
    THEN [ok |-> TRUE,
          table |-> WithDateColumn(df, date_col,
              [i \in DOMAIN df.rows |->
                  IF df.rows[i][date_col] = Null THEN Null
                  ELSE DateOf(df.rows[i][date_col].ordinal)]),
          tried |-> <<>>, error |-> ""]
    ELSE TryFormats(df, date_col, 1, <<>>, inferred)

---------------------------------------------------------------------------
(* The period splitter: parse_date_column on the loaded table, then       *)
(* split_by_period on the table it returns.                                *)

PeriodWindow(cs, ce, ps, pe) ==
    [current_start |-> cs, current_end |-> ce,
     previous_start |-> ps, previous_end |-> pe]

\* The comparison sections: the two weeks of the sample configuration, two
\* overlapping windows, the same window twice, one-day windows, a window
\* that ends before it starts, and a date in another format.
ComparisonChoices ==
    { PeriodWindow("2025-11-24", "2025-11-30", "2025-11-17", "2025-11-23"),
      PeriodWindow("2025-11-23", "2025-11-30", "2025-11-17", "2025-11-24"),
      PeriodWindow("2025-11-17", "2025-11-30", "2025-11-17", "2025-11-30"),
      PeriodWindow("2025-11-24", "2025-11-24", "2025-11-23", "2025-11-23"),
      PeriodWindow("2025-11-30", "2025-11-24", "2025-11-17", "2025-11-23"),
      PeriodWindow("2025/11/24", "2025-11-30", "2025-11-17", "2025-11-23") }

DateCells ==
    {DateOf(16), DateOf(17), DateOf(23), DateOf(24), DateOf(30), Null}

SplitColumns == <<"date", "clicks">>

SplitDtypes == ("date" :> "date") @@ ("clicks" :> "i64")

SplitRows ==
    {("date" :> d) @@ ("clicks" :> c) : d \in DateCells, c \in {Q(1), Q(3)}}

SplitTables ==
    UNION {{[columns |-> SplitColumns, dtypes |-> SplitDtypes, rows |-> rows]
              : rows \in [1..n -> SplitRows]} : n \in 0..MaxRows}

\* The texts of a string date column.
DateTexts ==
    {"2025-11-24", "2025/11/24", "11/24/2025", "24/11/2025", "11/12/2025",
     "24-11-2025", NoneStr}

TextTables ==
    UNION {{[columns |-> SplitColumns,
             dtypes |-> ("date" :> "str") @@ ("clicks" :> "i64"),
             rows |-> rows]
              : rows \in [1..n -> {("date" :> d) @@ ("clicks" :> Q(1))
                                     : d \in DateTexts}]}
           : n \in 0..MaxRows}

\* A Datetime column: the day and the hour of the day.
DatetimeTables ==
    UNION {{[columns |-> SplitColumns,
             dtypes |-> ("date" :> "datetime") @@ ("clicks" :> "i64"),
             rows |-> rows]
              : rows \in [1..n -> {("date" :> d) @@ ("clicks" :> Q(1))
                    : d \in {[ordinal |-> 24, hour |-> 0],
                             [ordinal |-> 24, hour |-> 13], Null}}]}
           : n \in 1..MaxRows}

\* A table that has no column of the configured name.
UndatedTable ==
    [columns |-> <<"clicks">>, dtypes |-> ("clicks" :> "i64"),
     rows |-> <<("clicks" :> Q(1))>>]

SplitInit ==
    /\ sp_pc = "unparsed"
    /\ \/ sp_input \in SplitTables
       \/ sp_input \in TextTables
       \/ sp_input \in DatetimeTables
       \/ sp_input = UndatedTable
    /\ sp_tried = <<>> /\ sp_error = ""
    /\ sp_df = EmptyTable
    /\ comparison \in ComparisonChoices
    /\ current_df = EmptyTable /\ previous_df = EmptyTable
    /\ ScoreIdle /\ InsightsIdle /\ MetricsIdle /\ IngestIdle
    /\ JoinIdle
    /\ LoaderIdle
    /\ SessionIdle
    /\ ManagerIdle

ParseDateColumn ==
    /\ sp_pc = "unparsed"
    /\ \E inferred \in (IF "date" \in Range(sp_input.columns)
                            /\ sp_input.dtypes["date"] = "str"
                         THEN InferOutcomes(sp_input, "date")
                         ELSE {[ok |-> FALSE, table |-> EmptyTable]}) :
          LET res == parse_date_column(sp_input, "date", inferred)
          IN  /\ sp_df' = res.table
              /\ sp_tried' = res.tried
              /\ sp_error' = res.error
              /\ sp_pc' = IF res.ok THEN "start" ELSE "parse_failed"
    /\ UNCHANGED <<sp_input, comparison, current_df, previous_df>>
    /\ UNCHANGED <<scoreVars, insightVars, metricVars, ingestVars,
                 joinVars,
                 loaderVars,
                 sessionVars,
                 managerVars>>

SplitByPeriod ==
    /\ sp_pc = "start"
    /\ LET res == split_by_period(sp_df, "date", comparison)
       IN  /\ current_df' = res.current
           /\ previous_df' = res.previous
           /\ sp_pc' = IF res.ok THEN "split" ELSE "split_failed"
    /\ UNCHANGED <<sp_input, sp_tried, sp_error, sp_df, comparison>>
    /\ UNCHANGED <<scoreVars, insightVars, metricVars, ingestVars,
                 joinVars,
                 loaderVars,
                 sessionVars,
                 managerVars>>

SplitNext == ParseDateColumn \/ SplitByPeriod

SpecSplit == SplitInit /\ [][SplitNext]_vars

---------------------------------------------------------------------------
(* Ingestion, in the order of ingest_data: load_all_sources one source at  *)
(* a time, then join_sources: the DuckDB strategy, and the Polars strategy *)
(* when that one raised.                                                   *)

CampaignValues == {"a", "b"}

\* The targets table shares no column with the other two.
SourceColumns(name) ==
    IF name = "clicks" THEN <<"date", "campaign", "clicks">>
    ELSE IF name = "targets" THEN <<"region", "target">>
    ELSE <<"date", "campaign", "conversions">>

SourceDtypes(name) ==
    [c \in Range(SourceColumns(name)) |->
        IF c = "date" THEN "date"
        ELSE IF c \in {"campaign", "region"} THEN "str"
        ELSE "i64"]

SourceRow(name, g) ==
    IF name = "clicks"
    THEN ("date" :> DateOf(24)) @@ ("campaign" :> g) @@ ("clicks" :> Q(1))
    ELSE IF name = "targets"
    THEN ("region" :> g) @@ ("target" :> Q(5))
    ELSE ("date" :> DateOf(24)) @@ ("campaign" :> g)
             @@ ("conversions" :> Q(3))

\* What a source may hold: clicks any rows, conversions at most one row
\* per campaign, targets at most one row per region.
SourceTables(name) ==
    UNION {{[columns |-> SourceColumns(name), dtypes |-> SourceDtypes(name),
             rows |-> [r \in 1..n |-> SourceRow(name, gs[r])]]
              : gs \in {f \in [1..n -> CampaignValues] :
                           name = "clicks"
                           \/ \A i, j \in 1..n : f[i] = f[j] => i = j}}
           : n \in 0..MaxRows}

\* load_source returns the table of the source or raises.
LoadOutcomes(name) ==
    {Ok(t) : t \in SourceTables(name)} \cup {Err(LoadError(name))}

SourceNameChoices ==
    {<<>>, <<"clicks">>, <<"conversions">>, <<"clicks", "conversions">>,
     <<"conversions", "clicks">>, <<"targets">>, <<"clicks", "targets">>}

PrimarySourceChoices == {"clicks", "conversions", "orders", "targets"}

\* The date_col of the primary source: the column the tables have, or a
\* name no table has.
DateColChoices == {"date", "day"}

PrimaryDimChoices == {<<>>, <<"campaign">>}

IngestInit ==
    /\ ig_config \in [source_names : SourceNameChoices,
                      primary_source : PrimarySourceChoices,
                      primary_dims : PrimaryDimChoices,
                      date_col : DateColChoices]
    /\ ig_pc = IF ig_config.source_names = <<>> THEN "loaded" ELSE "loading"
    /\ ig_i = 1
    /\ ld_sources = <<>> /\ sources = <<>>
    /\ duckdb_calls = 0 /\ polars_calls = 0
    /\ duckdb_error = "" /\ ig_error = ""
    /\ unified = EmptyTable
    /\ ScoreIdle /\ InsightsIdle /\ MetricsIdle /\ SplitIdle
    /\ JoinIdle
    /\ LoaderIdle
    /\ SessionIdle
    /\ ManagerIdle

LoadSource ==
    /\ ig_pc = "loading"
    /\ \E outcome \in LoadOutcomes(ig_config.source_names[ig_i]) :
         LET step == LoadStep(ld_sources, ig_config.source_names, ig_i,
                              outcome)
         IN  /\ ig_pc' = step.pc
             /\ ld_sources' = step.ld_sources
             /\ sources' = step.returned
             /\ ig_error' = step.error
             /\ ig_i' = IF step.pc = "load_failed" THEN ig_i ELSE ig_i + 1
    /\ UNCHANGED <<ig_config, duckdb_calls, duckdb_error, polars_calls,
                   unified>>
    /\ UNCHANGED <<scoreVars, insightVars, metricVars, splitVars,
                 joinVars,
                 loaderVars,
                 sessionVars,
                 managerVars>>

JoinDuckDB ==
    /\ ig_pc = "loaded"
    /\ \E outcome \in join_sources_duckdb(sources, ig_config) :
         /\ duckdb_error' = outcome.error
         /\ IF FallsBack(outcome)
            THEN ig_pc' = "fallback" /\ UNCHANGED unified
            ELSE ig_pc' = "joined" /\ unified' = outcome.table
    /\ duckdb_calls' = duckdb_calls + 1
    /\ UNCHANGED <<ig_config, ig_i, ld_sources, sources, polars_calls,
                   ig_error>>
    /\ UNCHANGED <<scoreVars, insightVars, metricVars, splitVars,
                 joinVars,
                 loaderVars,
                 sessionVars,
                 managerVars>>

JoinPolars ==
    /\ ig_pc = "fallback"
    /\ LET res == join_sources_polars(sources, ig_config)
       IN  /\ ig_pc' = IF res.ok THEN "joined" ELSE "join_failed"
           /\ unified' = res.table
           /\ ig_error' = res.error
    /\ polars_calls' = polars_calls + 1
    /\ UNCHANGED <<ig_config, ig_i, ld_sources, sources, duckdb_calls,
                   duckdb_error>>
    /\ UNCHANGED <<scoreVars, insightVars, metricVars, splitVars,
                 joinVars,
                 loaderVars,
                 sessionVars,
                 managerVars>>

\* The end of ingest_data: the table of join_sources is returned or the
\* validation of the date column raises.
ValidateDateColumn ==
    /\ ig_pc = "joined"
    /\ LET res == validate_date_column(unified, ig_config)
       IN  /\ ig_pc' = IF res.ok THEN "returned" ELSE "ingest_failed"
           /\ ig_error' = res.error
    /\ UNCHANGED <<ig_config, ig_i, ld_sources, sources, duckdb_calls,
                   duckdb_error, polars_calls, unified>>
    /\ UNCHANGED <<scoreVars, insightVars, metricVars, splitVars,
                 joinVars,
                 loaderVars,
                 sessionVars,
                 managerVars>>

IngestNext == LoadSource \/ JoinDuckDB \/ JoinPolars \/ ValidateDateColumn

SpecIngest == IngestInit /\ [][IngestNext]_vars

---------------------------------------------------------------------------
(* The period join: join_periods on the two aggregated tables, then        *)
(* extract_insights on the joined table, as generate_insights calls them.  *)

\* The sums of a metric in the two periods: of a count (0 or 2), or of a
\* rate below half of 0.0001.
AggValueSets == {{Q(0), Q(2)}, {Q(0), Frac(1, 40000)}}

\* What aggregate_by_dimensions returns for one period: with the dimension
\* region one row per region, without dimensions at most one row.
AggTables(dims, AggValues) ==
    IF dims = <<>>
    THEN {[columns |-> <<"clicks">>, dtypes |-> ("clicks" :> "f64"),
           rows |-> [r \in 1..n |-> ("clicks" :> v)]]
             : n \in 0..1, v \in AggValues}
    ELSE UNION {
           {[columns |-> <<"region", "clicks">>,
             dtypes  |-> ("region" :> "str") @@ ("clicks" :> "f64"),
             rows    |-> [r \in 1..n |->
                             ("region" :> gs[r]) @@ ("clicks" :> vs[r])]]
              : gs \in {f \in [1..n -> RegionValues] :
                           \A i, j \in 1..n : f[i] = f[j] => i = j},
                vs \in [1..n -> AggValues]}
           : n \in 0..Cardinality(RegionValues)}

JoinInit ==
    /\ jp_pc = "start"
    /\ jp_dims \in DimensionChoices
    /\ \E vals \in AggValueSets :
          /\ current_agg \in AggTables(jp_dims, vals)
          /\ previous_agg \in AggTables(jp_dims, vals)
    /\ jp_joined = EmptyTable
    /\ jp_insights = <<>>
    /\ ScoreIdle /\ InsightsIdle /\ MetricsIdle /\ SplitIdle /\ IngestIdle
    /\ LoaderIdle
    /\ SessionIdle
    /\ ManagerIdle

\* join_periods; the join returns its rows in some order.
JoinPeriods ==
    /\ jp_pc = "start"
    /\ \E coalesce \in BOOLEAN :
         LET res == join_periods(current_agg, previous_agg, jp_dims, coalesce)
         IN  \E o \in Orderings(res.rows) :
                jp_joined' = [res EXCEPT !.rows = o]
    /\ jp_pc' = "joined"
    /\ UNCHANGED <<current_agg, previous_agg, jp_dims, jp_insights>>
    /\ UNCHANGED <<scoreVars, insightVars, metricVars, splitVars, ingestVars,
                 loaderVars,
                 sessionVars,
                 managerVars>>

ExtractJoined ==
    /\ jp_pc = "joined"
    /\ jp_insights' = extract_insights(jp_joined, jp_dims, <<"clicks">>)
    /\ jp_pc' = "extracted"
    /\ UNCHANGED <<current_agg, previous_agg, jp_dims, jp_joined>>
    /\ UNCHANGED <<scoreVars, insightVars, metricVars, splitVars, ingestVars,
                 loaderVars,
                 sessionVars,
                 managerVars>>

JoinNext == JoinPeriods \/ ExtractJoined

SpecJoin == JoinInit /\ [][JoinNext]_vars

---------------------------------------------------------------------------
(* Loading one source: load_csv_source on a file with some header line,    *)
(* or load_database_source on some source configuration.                   *)

HeaderChars == {"a", ",", ";", "\t"}

HeaderLines == UNION {[1..n -> HeaderChars] : n \in 0..MaxHeaderLen}

SourceConfigChoices ==
    [type       : {"database"},
     table      : {"conversions"},
     dimensions : {<<>>, <<"campaign">>, <<"campaign", "geo">>},
     metrics    : {<<>>, <<"revenue">>, <<"campaign", "revenue">>},
     date_col   : {"", "date", "campaign"},
     join_key   : {<<>>, <<"campaign", "date">>, <<"store", "store">>}]

LoaderInit ==
    /\ lo_pc = "start"
    /\ \/ /\ first_line \in HeaderLines
          /\ source_config = [type |-> "csv"]
       \/ /\ first_line = <<>>
          /\ source_config \in SourceConfigChoices
    /\ delimiter = "" /\ csv_columns = <<>> /\ query = <<>>
    /\ ScoreIdle /\ InsightsIdle /\ MetricsIdle /\ SplitIdle /\ IngestIdle
    /\ JoinIdle
    /\ SessionIdle
    /\ ManagerIdle

LoadCsvSource ==
    /\ lo_pc = "start"
    /\ source_config.type = "csv"
    /\ \E exists \in BOOLEAN :
         LET res == load_csv_source(exists, first_line)
         IN  /\ delimiter' = res.delimiter
             /\ csv_columns' = res.columns
             /\ lo_pc' = IF res.ok THEN "loaded" ELSE "load_failed"
    /\ UNCHANGED <<first_line, source_config, query>>
    /\ UNCHANGED <<scoreVars, insightVars, metricVars, splitVars, ingestVars,
                   joinVars,
                 sessionVars,
                 managerVars>>

\* load_database_source up to the generated query.
LoadDatabaseSource ==
    /\ lo_pc = "start"
    /\ source_config.type = "database"
    /\ query' = [select |-> SelectList(source_config),
                 from |-> source_config.table]
    /\ lo_pc' = "queried"
    /\ UNCHANGED <<first_line, delimiter, csv_columns, source_config>>
    /\ UNCHANGED <<scoreVars, insightVars, metricVars, splitVars, ingestVars,
                   joinVars,
                 sessionVars,
                 managerVars>>

LoaderNext == LoadCsvSource \/ LoadDatabaseSource

SpecLoader == LoaderInit /\ [][LoaderNext]_vars

---------------------------------------------------------------------------
(* The session manager of one process over its storage directory: calls    *)
(* of its methods in any order, the clock advancing between calls, and     *)
(* the manager constructed anew with an empty cache.                       *)

NoSessions == [id \in SessionIds |-> None]

ExpiryChoices == {-1, 1}

\* token = None, token = "", or a token string.
PresentedTokens == {None, Some("")} \cup {Some(t) : t \in Tokens}

OtherStages ==
    <<scoreVars, insightVars, metricVars, splitVars, ingestVars, joinVars,
      loaderVars, managerVars>>

SessionInit ==
    /\ ss_pc = "ready"
    /\ now = 0
    /\ session_files = NoSessions /\ cache = NoSessions
    /\ held = None /\ last_call = <<>> /\ got = None
    /\ ScoreIdle /\ InsightsIdle /\ MetricsIdle /\ SplitIdle /\ IngestIdle
    /\ JoinIdle
    /\ LoaderIdle
    /\ ManagerIdle
    /\ ManagerIdle

\* secrets.token_urlsafe: an id that no session has, and some token.
CreateSession ==
    /\ ss_pc = "ready"
    /\ \E id \in SessionIds, token \in Tokens, hours \in ExpiryChoices :
         /\ session_files[id] = None /\ cache[id] = None
         /\ LET res == create_session(session_files, cache, now, id, token,
                                      hours)
            IN  /\ session_files' = res.files
                /\ cache' = res.cache
                /\ held' = Some(res.result)
         /\ last_call' = <<"create_session", id>>
    /\ got' = None
    /\ UNCHANGED <<ss_pc, now>>
    /\ UNCHANGED OtherStages

\* main.py: the audio url of the session just created is set, and the
\* session is saved again.
UpdateSession ==
    /\ ss_pc = "ready"
    /\ held # None
    /\ LET session == [held[1] EXCEPT !.audio_url = Some("audio")]
           res == update_session(session_files, cache, session)
       IN  /\ session_files' = res.files
           /\ cache' = res.cache
           /\ held' = Some(session)
           /\ last_call' = <<"update_session", session.session_id>>
    /\ got' = None
    /\ UNCHANGED <<ss_pc, now>>
    /\ UNCHANGED OtherStages

GetSession ==
    /\ ss_pc = "ready"
    /\ \E id \in SessionIds, token \in PresentedTokens :
         LET res == get_session(session_files, cache, now, id, token)
         IN  /\ session_files' = res.files
             /\ cache' = res.cache
             /\ got' = res.result
             /\ last_call' = <<"get_session", id, token>>
    /\ UNCHANGED <<ss_pc, now, held>>
    /\ UNCHANGED OtherStages

DeleteSession ==
    /\ ss_pc = "ready"
    /\ \E id \in SessionIds :
         LET res == delete_session(session_files, cache, id)
         IN  /\ session_files' = res.files
             /\ cache' = res.cache
             /\ last_call' = <<"delete_session", id>>
    /\ got' = None
    /\ UNCHANGED <<ss_pc, now, held>>
    /\ UNCHANGED OtherStages

CleanupExpired ==
    /\ ss_pc = "ready"
    /\ LET res == cleanup_expired(session_files, cache, now)
       IN  /\ session_files' = res.files
           /\ cache' = res.cache
           /\ last_call' = <<"cleanup_expired", res.count>>
    /\ got' = None
    /\ UNCHANGED <<ss_pc, now, held>>
    /\ UNCHANGED OtherStages

\* SessionManager.__init__ in a new process or for the directory again:
\* the cache starts empty, the files stay.
InitManager ==
    /\ ss_pc = "ready"
    /\ cache' = NoSessions
    /\ last_call' = <<"__init__">>
    /\ got' = None
    /\ UNCHANGED <<ss_pc, now, session_files, held>>
    /\ UNCHANGED OtherStages

\* An hour passes.
Tick ==
    /\ ss_pc = "ready"
    /\ now < MaxTime
    /\ now' = now + 1
    /\ UNCHANGED <<ss_pc, session_files, cache, held, last_call, got>>
    /\ UNCHANGED OtherStages

SessionNext ==
    \/ CreateSession \/ UpdateSession \/ GetSession \/ DeleteSession
    \/ CleanupExpired \/ InitManager \/ Tick

SpecSession == SessionInit /\ [][SessionNext]_vars

---------------------------------------------------------------------------
(* SessionManager(storage_dir) called once by each of several threads:     *)
(* type.__call__ runs __new__ and, on an instance of the class, __init__.  *)
(* A thread can be preempted between any two reads or writes of the class  *)
(* attributes _instance and _current_storage_dir and of the attributes of  *)
(* an instance.  Objects are numbered from 1; 0 is None.                   *)

Threads == 1..MaxThreads

StorageDirs == {"a", "b"}

\* super().__new__(cls): an object without attributes.
NewObject == [has_initialized |-> FALSE, initialized |-> FALSE,
              storage_dir |-> None]

Pending == [status |-> "pending", obj |-> 0, initialized |-> FALSE,
            storage_dir |-> None]

\* What the caller holds when the call returns instance obj.
Returned(obj, h) ==
    IF obj = 0
    THEN [status |-> "returned", obj |-> 0, initialized |-> FALSE,
          storage_dir |-> None]
    ELSE [status |-> "returned", obj |-> obj,
          initialized |-> h[obj].has_initialized /\ h[obj].initialized,
          storage_dir |-> h[obj].storage_dir]

Raised == [status |-> "AttributeError", obj |-> 0, initialized |-> FALSE,
           storage_dir |-> None]

ManagerInit ==
    /\ mg_pc = [t \in Threads |-> "new_check_instance"]
    /\ requested \in [Threads -> StorageDirs]
    /\ cls_instance = 0 /\ cls_current_storage_dir = None /\ cls_lock = 0
    /\ heap = <<>>
    /\ self_obj = [t \in Threads |-> 0]
    /\ call_result = [t \in Threads |-> Pending]
    /\ ScoreIdle /\ InsightsIdle /\ MetricsIdle /\ SplitIdle /\ IngestIdle
    /\ JoinIdle
    /\ LoaderIdle
    /\ SessionIdle

NotManager ==
    <<scoreVars, insightVars, metricVars, splitVars, ingestVars, joinVars,
      loaderVars, sessionVars>>

Goto(t, pc) == mg_pc' = [mg_pc EXCEPT ![t] = pc]

\* if cls._instance is not None ...
NewCheckInstance(t) ==
    /\ mg_pc[t] = "new_check_instance"
    /\ Goto(t, IF cls_instance # 0 THEN "new_check_dir" ELSE "new_if_none")
    /\ UNCHANGED <<requested, cls_instance, cls_current_storage_dir,
                   cls_lock, heap, self_obj, call_result>>
    /\ UNCHANGED NotManager

\* ... and cls._current_storage_dir != storage_dir:
NewCheckDir(t) ==
    /\ mg_pc[t] = "new_check_dir"
    /\ Goto(t, IF cls_current_storage_dir # Some(requested[t])
               THEN "new_reset_instance" ELSE "new_if_none")
    /\ UNCHANGED <<requested, cls_instance, cls_current_storage_dir,
                   cls_lock, heap, self_obj, call_result>>
    /\ UNCHANGED NotManager

\* cls._instance = None
NewResetInstance(t) ==
    /\ mg_pc[t] = "new_reset_instance"
    /\ cls_instance' = 0
    /\ Goto(t, "new_reset_dir")
    /\ UNCHANGED <<requested, cls_current_storage_dir, cls_lock, heap,
                   self_obj, call_result>>
    /\ UNCHANGED NotManager

\* cls._current_storage_dir = None
NewResetDir(t) ==
    /\ mg_pc[t] = "new_reset_dir"
    /\ cls_current_storage_dir' = None
    /\ Goto(t, "new_if_none")
    /\ UNCHANGED <<requested, cls_instance, cls_lock, heap, self_obj,
                   call_result>>
    /\ UNCHANGED NotManager

\* if cls._instance is None:
NewIfNone(t) ==
    /\ mg_pc[t] = "new_if_none"
    /\ Goto(t, IF cls_instance = 0 THEN "new_acquire" ELSE "new_return")
    /\ UNCHANGED <<requested, cls_instance, cls_current_storage_dir,
                   cls_lock, heap, self_obj, call_result>>
    /\ UNCHANGED NotManager

\* with cls._lock:
NewAcquire(t) ==
    /\ mg_pc[t] = "new_acquire"
    /\ cls_lock = 0
    /\ cls_lock' = t
    /\ Goto(t, "new_locked_check")
    /\ UNCHANGED <<requested, cls_instance, cls_current_storage_dir, heap,
                   self_obj, call_result>>
    /\ UNCHANGED NotManager

\* if cls._instance is None, under the lock; otherwise the lock is released.
NewLockedCheck(t) ==
    /\ mg_pc[t] = "new_locked_check"
    /\ IF cls_instance = 0
       THEN Goto(t, "new_create") /\ UNCHANGED cls_lock
       ELSE Goto(t, "new_return") /\ cls_lock' = 0
    /\ UNCHANGED <<requested, cls_instance, cls_current_storage_dir, heap,
                   self_obj, call_result>>
    /\ UNCHANGED NotManager

\* cls._instance = super().__new__(cls)
NewCreate(t) ==
    /\ mg_pc[t] = "new_create"
    /\ heap' = Append(heap, NewObject)
    /\ cls_instance' = Len(heap) + 1
    /\ Goto(t, "new_set_flag")
    /\ UNCHANGED <<requested, cls_current_storage_dir, cls_lock, self_obj,
                   call_result>>
    /\ UNCHANGED NotManager

\* cls._instance._initialized = False: AttributeError when cls._instance
\* has become None, and the with block releases the lock.
NewSetFlag(t) ==
    /\ mg_pc[t] = "new_set_flag"
    /\ IF cls_instance = 0
       THEN /\ call_result' = [call_result EXCEPT ![t] = Raised]
            /\ cls_lock' = 0
            /\ Goto(t, "done")
            /\ UNCHANGED heap
       ELSE /\ heap' = [heap EXCEPT ![cls_instance] =
                           [@ EXCEPT !.has_initialized = TRUE,
                                     !.initialized = FALSE]]
            /\ Goto(t, "new_set_dir")
            /\ UNCHANGED <<call_result, cls_lock>>
    /\ UNCHANGED <<requested, cls_instance, cls_current_storage_dir,
                   self_obj>>
    /\ UNCHANGED NotManager

\* cls._current_storage_dir = storage_dir, and the lock is released.
NewSetDir(t) ==
    /\ mg_pc[t] = "new_set_dir"
    /\ cls_current_storage_dir' = Some(requested[t])
    /\ cls_lock' = 0
    /\ Goto(t, "new_return")
    /\ UNCHANGED <<requested, cls_instance, heap, self_obj, call_result>>
    /\ UNCHANGED NotManager

\* return cls._instance: type.__call__ returns what is not an instance of
\* the class, None included, without calling __init__.
NewReturn(t) ==
    /\ mg_pc[t] = "new_return"
    /\ self_obj' = [self_obj EXCEPT ![t] = cls_instance]
    /\ IF cls_instance = 0
       THEN /\ call_result' =
                [call_result EXCEPT ![t] = Returned(0, heap)]
            /\ Goto(t, "done")
       ELSE /\ Goto(t, "init_check")
            /\ UNCHANGED call_result
    /\ UNCHANGED <<requested, cls_instance, cls_current_storage_dir,
                   cls_lock, heap>>
    /\ UNCHANGED NotManager

\* if self._initialized and str(self.storage_dir) == storage_dir: return.
\* An instance that has no _initialized attribute yet raises.
InitCheck(t) ==
    /\ mg_pc[t] = "init_check"
    /\ LET self == heap[self_obj[t]]
       IN  IF ~self.has_initialized
           THEN /\ call_result' = [call_result EXCEPT ![t] = Raised]
                /\ Goto(t, "done")
           ELSE IF self.initialized
                   /\ self.storage_dir = Some(requested[t])
           THEN /\ call_result' = [call_result EXCEPT
                                ![t] = Returned(self_obj[t], heap)]
                /\ Goto(t, "done")
           ELSE /\ Goto(t, "init_set_dir")
                /\ UNCHANGED call_result
    /\ UNCHANGED <<requested, cls_instance, cls_current_storage_dir,
                   cls_lock, heap, self_obj>>
    /\ UNCHANGED NotManager

\* self.storage_dir = Path(storage_dir); mkdir; self._cache = {}
InitSetDir(t) ==
    /\ mg_pc[t] = "init_set_dir"
    /\ heap' = [heap EXCEPT ![self_obj[t]].storage_dir = Some(requested[t])]
    /\ Goto(t, "init_flag")
    /\ UNCHANGED <<requested, cls_instance, cls_current_storage_dir,
                   cls_lock, self_obj, call_result>>
    /\ UNCHANGED NotManager

\* self._initialized = True, and the instance is returned to the caller.
InitFlag(t) ==
    /\ mg_pc[t] = "init_flag"
    /\ heap' = [heap EXCEPT ![self_obj[t]] =
                   [@ EXCEPT !.has_initialized = TRUE, !.initialized = TRUE]]
    /\ call_result' =
          [call_result EXCEPT ![t] = Returned(self_obj[t], heap')]
    /\ Goto(t, "done")
    /\ UNCHANGED <<requested, cls_instance, cls_current_storage_dir,
                   cls_lock, self_obj>>
    /\ UNCHANGED NotManager

ManagerNext ==
    \E t \in Threads :
        \/ NewCheckInstance(t) \/ NewCheckDir(t) \/ NewResetInstance(t)
        \/ NewResetDir(t) \/ NewIfNone(t) \/ NewAcquire(t)
        \/ NewLockedCheck(t) \/ NewCreate(t) \/ NewSetFlag(t)
        \/ NewSetDir(t) \/ NewReturn(t) \/ InitCheck(t) \/ InitSetDir(t)
        \/ InitFlag(t)

SpecManager == ManagerInit /\ [][ManagerNext]_vars

---------------------------------------------------------------------------
(* Claims about the scoring functions                                      *)

C2_Monotone ==
    sc_pc = "done" =>
        /\ \A d2 \in ScoreDeltas :
               /\ FLe(FAbs(delta), FAbs(d2)) =>
                      FLe(impact, compute_impact_score(d2, delta_pct,
                                      metric_priority, total_metrics))
               /\ FLe(FAbs(d2), FAbs(delta)) =>
                      FLe(compute_impact_score(d2, delta_pct,
                                      metric_priority, total_metrics), impact)
        /\ \A j \in 0..(total_metrics - 1) :
               /\ j <= metric_priority =>
                      FLe(impact, compute_impact_score(delta, delta_pct, j,
                                                       total_metrics))
               /\ j >= metric_priority =>
                      FLe(compute_impact_score(delta, delta_pct, j,
                                               total_metrics), impact)

\* C2 witness: a scored pair with a non-zero delta that is not the highest
\* priority, so both a larger delta and a higher priority exist.
C2_Witness ==
    /\ sc_pc = "done"
    /\ metric_priority > 0
    /\ FLt(Q(0), FAbs(delta))
    /\ FLt(Q(0), impact)

---------------------------------------------------------------------------
(* Claims about extract_insights and rank_insights                         *)

\* The joined row an insight record was made from.
RowOfRecord(rec) ==
    IF dimensions = <<>> THEN joined_df.rows[1]
    ELSE LET r == CHOOSE r \in DOMAIN joined_df.rows :
                      joined_df.rows[r]["region"] = rec.dimensions["region"]
         IN  joined_df.rows[r]

\* The score formula of the specification, written out on the cells.
ExpectedScore(c, p, priority_index, total) ==
    LET d          == FSub(c, p)
        pct        == IF p = Q(0) THEN Q(100 * SignInt(c.n))
                      ELSE FDiv(FMul(d, Q(100)), FAbs(p))
        capped     == IF FLt(Q(200), FAbs(pct)) THEN Q(200) ELSE FAbs(pct)
        pct_factor == FDiv(capped, Q(200))
        weight     == FDiv(Q(total - priority_index), Q(total))
    IN  Round(FMul(FAbs(d), FMul(FAdd(Q(1), pct_factor), FAdd(Q(1), weight))),
              4)

IsClicksExample ==
    /\ dimensions = <<>>
    /\ kpi_priority = <<"clicks">>
    /\ Len(joined_df.rows) = 1
    /\ joined_df.rows[1]["clicks_current"] = Q(300)
    /\ joined_df.rows[1]["clicks_previous"] = Q(200)

\* C3: every record emitted by extract_insights carries impact_score =
\* round(|delta| * (1 + min(|delta_pct|, 200)/200) * (1 + (total -
\* priority_index)/total), 4) of the unrounded delta and delta_pct of its
\* row; the dimension-less row clicks 300 vs 200 with kpi priority [clicks]
\* yields delta 100, delta_pct 50.0, impact_score 250.0, direction "up".
C3_ImpactScore ==
    in_pc \in {"extracted", "ranked", "reranked"} =>
        /\ \A k \in DOMAIN insights :
               LET rec == insights[k]
                   row == RowOfRecord(rec)
               IN  rec.impact_score =
                       ExpectedScore(row[rec.metric \o "_current"],
                                     row[rec.metric \o "_previous"],
                                     IndexOf(kpi_priority, rec.metric) - 1,
                                     Len(kpi_priority))
        /\ IsClicksExample =>
               /\ Len(insights) = 1
               /\ insights[1].delta = Q(100)
               /\ insights[1].delta_pct = Q(50)
               /\ insights[1].impact_score = Q(250)
               /\ insights[1].direction = "up"

\* C3 witness: the clicks 300 vs 200 example has been extracted and scored
\* 250.0.
C3_Witness ==
    /\ in_pc = "extracted"
    /\ IsClicksExample
    /\ Len(insights) = 1
    /\ insights[1].impact_score = Q(250)

\* C4: rank_insights is idempotent: ranking the ranked list again with the
\* same top_n and min_impact returns the same list, element for element.
C4_Idempotent ==
    in_pc = "reranked" => reranked = ranked

\* C5: the ranked list holds only input records with impact_score >=
\* min_impact, in non-increasing order of impact_score, records of equal
\* score in their input order; with no top_n (None) it holds every input
\* record meeting the threshold exactly once.
C5_Ranked ==
    in_pc \in {"ranked", "reranked"} =>
        /\ \A i \in DOMAIN ranked :
               /\ ranked[i] \in Range(insights)
               /\ FLe(min_impact, ranked[i].impact_score)
        /\ \A i, j \in DOMAIN ranked :
               i < j =>
                   /\ FLe(ranked[j].impact_score, ranked[i].impact_score)
                   /\ ranked[i].impact_score = ranked[j].impact_score =>
                          IndexOf(insights, ranked[i])
                              < IndexOf(insights, ranked[j])
        /\ top_n = None =>
               \A k \in DOMAIN insights :
                   FLe(min_impact, insights[k].impact_score) =>
                       Cardinality({i \in DOMAIN ranked :
                                       ranked[i] = insights[k]}) = 1

\* C5 witness: a ranking without top_n that dropped a record below the
\* threshold, kept two records of equal score, and had to reorder.
C5_Witness ==
    /\ in_pc = "ranked"
    /\ top_n = None
    /\ Len(ranked) < Len(insights)
    /\ \E i, j \in DOMAIN ranked :
           i < j /\ ranked[i].impact_score = ranked[j].impact_score
    /\ \E i \in DOMAIN ranked : ranked[i] # insights[i]

\* C6: whenever a top_n >= 0 is given, the ranked list has at most top_n
\* records, the first top_n of the filtered, sorted list.
C6_TopN ==
    (in_pc \in {"ranked", "reranked"} /\ top_n # None /\ top_n[1] >= 0) =>
        /\ Len(ranked) <= top_n[1]
        /\ ranked = SubSeq(SortedDesc(FilterImpact(insights, min_impact)), 1,
                           Min2(top_n[1],
                                Len(FilterImpact(insights, min_impact))))

---------------------------------------------------------------------------
(* Claims about the metrics stage                                          *)

\* The sum of the non-null cells of column m over all rows of df.
RECURSIVE ColumnTotal(_, _, _)
ColumnTotal(df, m, n) ==
    IF n = 0 THEN Q(0)
    ELSE LET v == df.rows[n][m]
         IN  FAdd(ColumnTotal(df, m, n - 1), IF v = Null THEN Q(0) ELSE v)

\* C7: with an empty dimension list, aggregate_by_dimensions produces
\* exactly one row, in which every requested metric that is a column of
\* the table equals the sum of that column.
C7_SingleRow ==
    (m_pc \in {"aggregated", "agg_failed"} /\ agg_dims = <<>>) =>
        /\ m_pc = "aggregated"
        /\ Len(m_agg.rows) = 1
        /\ \A k \in DOMAIN agg_metrics :
               HasColumn(m_df, agg_metrics[k]) =>
                   m_agg.rows[1][agg_metrics[k]]
                       = ColumnTotal(m_df, agg_metrics[k], Len(m_df.rows))

\* C8: for every dimension set, aggregate_by_dimensions fails with
\* MissingColumn if a dimension is no column of the table, fails with
\* NoValidMetrics if no requested metric is a column, and otherwise
\* succeeds, with the requested metrics that are columns and no others.
C8_Errors ==
    m_pc \in {"aggregated", "agg_failed"} =>
        LET missingDim == \E d \in Range(agg_dims) : ~HasColumn(m_df, d)
            noMetric   == \A k \in DOMAIN agg_metrics :
                              ~HasColumn(m_df, agg_metrics[k])
        IN  /\ missingDim => m_pc = "agg_failed" /\ m_error = "MissingColumn"
            /\ (~missingDim /\ noMetric) =>
                   m_pc = "agg_failed" /\ m_error = "NoValidMetrics"
            /\ (~missingDim /\ ~noMetric) =>
                   /\ m_pc = "aggregated"
                   /\ Range(m_agg.columns) =
                          Range(agg_dims) \cup
                          {agg_metrics[k] : k \in
                              {j \in DOMAIN agg_metrics :
                                  HasColumn(m_df, agg_metrics[j])}}

\* The formula the loop applied last.
LastFormula == parse_formula(derived_metrics[m_i - 1][2])

LastWasDivision ==
    /\ m_pc \in {"deriving", "derived", "aggregated", "agg_failed"}
    /\ m_i > 1
    /\ LastFormula.operator = "/"

\* C9: after a formula with operator "/", every cell of the new column
\* whose divisor cell is 0 is exactly 0.0, and every cell with a non-zero
\* divisor d and dividend a is the quotient: finite, with cell * d = a.
C9_Division ==
    LastWasDivision =>
        \A r \in DOMAIN m_df.rows :
            LET a == m_prev.rows[r][LastFormula.operand1]
                d == m_prev.rows[r][LastFormula.operand2]
                v == m_df.rows[r][derived_metrics[m_i - 1][1]]
            IN  /\ d = Q(0) => v = Q(0)
                /\ (d # Q(0) /\ d # Null) =>
                       IF a = Null THEN v = Null
                       ELSE IsFinite(v) /\ FMul(v, d) = a

\* C9 witness: a division was applied to a table with a zero divisor in
\* one row (and a non-zero dividend) and a non-zero divisor in another.
C9_Witness ==
    /\ LastWasDivision
    /\ \E r \in DOMAIN m_df.rows :
           /\ m_prev.rows[r][LastFormula.operand2] = Q(0)
           /\ m_prev.rows[r][LastFormula.operand1] = Q(3)
    /\ \E r \in DOMAIN m_df.rows :
           /\ m_prev.rows[r][LastFormula.operand2] = Q(2)
           /\ m_df.rows[r][derived_metrics[m_i - 1][1]] = Frac(3, 2)

\* The names the entries before entry k derive.
DerivedBefore(k) == {derived_metrics[j][1] : j \in 1..(k - 1)}

\* C10: the formulas are evaluated in mapping order, one new column per
\* formula: an entry may use a column derived by an earlier entry, an entry
\* using a column derived only by a later entry fails with ColumnNotFound,
\* and on success the table has one more column per formula than the input.
C10_OneColumnPerFormula ==
    /\ m_pc \in {"derived", "aggregated", "agg_failed"} =>
           /\ Len(m_df.columns) = Len(m_input.columns) + Len(derived_metrics)
           /\ \A k \in DOMAIN derived_metrics :
                  HasColumn(m_df, derived_metrics[k][1])
    /\ (m_pc = "deriving" /\ m_i > 1) =>
           Len(m_df.columns) = Len(m_input.columns) + (m_i - 1)
    /\ (m_pc = "derive_failed" /\ m_error = "ColumnNotFound") =>
           \E tok \in Range(derived_metrics[m_i][2]) :
               /\ IsIdentifier(tok)
               /\ ~HasColumn(m_input, tok)
               /\ tok \notin DerivedBefore(m_i)

\* The grammar <identifier> <op> <identifier> on the tokens of a formula,
\* whitespace aside.
MatchesGrammar(formula) ==
    \E a, b \in Range(formula), op \in Operators :
        /\ IsIdentifier(a) /\ IsIdentifier(b)
        /\ SelectSeq(formula, LAMBDA tok : tok # " ") = <<a, op, b>>

FormulaOperands(formula) == {tok \in Range(formula) : IsIdentifier(tok)}

\* C11: compute_derived_metric fails with a formula error when the formula
\* does not match <identifier> <op> <identifier>, and with a
\* column-not-found error when the formula matches and an operand is not a
\* column of the table; in both cases the stage holds no new table and the
\* table it was given is unchanged.
C11_DerivedMetricErrors ==
    [][m_pc = "deriving" =>
          LET formula == derived_metrics[m_i][2]
              failed(e) == /\ m_pc' = "derive_failed"
                           /\ m_error' = e
                           /\ m_df' = m_df
                           /\ m_input' = m_input
          IN  /\ ~MatchesGrammar(formula) => failed("FormulaError")
              /\ (/\ MatchesGrammar(formula)
                  /\ \E tok \in FormulaOperands(formula) :
                         ~HasColumn(m_df, tok))
                     => failed("ColumnNotFound")]_vars

C11_Witness ==
    /\ m_pc = "derive_failed"
    /\ m_error = "ColumnNotFound"
    /\ MatchesGrammar(derived_metrics[m_i][2])
    /\ HasColumn(m_df, "clicks")
    /\ ~HasColumn(m_df, "cost")
    /\ "cost" \in FormulaOperands(derived_metrics[m_i][2])
    /\ m_df = m_input
    /\ Len(m_df.rows) = MaxRows

---------------------------------------------------------------------------
(* Claims about the period splitter                                        *)

\* The number of rows of a table that equal row x.
CountRows(df, x) == Cardinality({i \in DOMAIN df.rows : df.rows[i] = x})

\* start <= d <= end on the days the configured strings name.
DateWithin(row, start, end) ==
    /\ row["date"] # Null
    /\ IsoDates[start] <= row["date"].ordinal
    /\ row["date"].ordinal <= IsoDates[end]

WellFormedComparison ==
    {comparison.current_start, comparison.current_end,
     comparison.previous_start, comparison.previous_end} \subseteq
        DOMAIN IsoDates

SampleComparison ==
    PeriodWindow("2025-11-24", "2025-11-30", "2025-11-17", "2025-11-23")

\* C12: split_by_period returns as current exactly the rows with
\* current_start <= date <= current_end and as previous exactly the rows
\* with previous_start <= date <= previous_end, both bounds included; a row
\* in neither window is in neither output, and the split does not fail.
C12_SplitByPeriod ==
    (sp_pc \in {"split", "split_failed"} /\ WellFormedComparison) =>
        /\ sp_pc = "split"
        /\ current_df.columns = sp_df.columns
        /\ previous_df.columns = sp_df.columns
        /\ \A x \in Range(current_df.rows) \cup Range(previous_df.rows)
                 \cup Range(sp_df.rows) :
              /\ CountRows(current_df, x) =
                    IF DateWithin(x, comparison.current_start,
                                  comparison.current_end)
                    THEN CountRows(sp_df, x) ELSE 0
              /\ CountRows(previous_df, x) =
                    IF DateWithin(x, comparison.previous_start,
                                  comparison.previous_end)
                    THEN CountRows(sp_df, x) ELSE 0

C12_Witness ==
    /\ sp_pc = "split"
    /\ comparison = SampleComparison
    /\ Len(sp_df.rows) = 2
    /\ sp_df.rows[1]["date"] = DateOf(16)
    /\ sp_df.rows[2]["date"] = DateOf(30)
    /\ current_df.rows = <<sp_df.rows[2]>>
    /\ previous_df.rows = <<>>

\* A row of the input is placed in both outputs.
PlacedInBoth(x) ==
    CountRows(current_df, x) + CountRows(previous_df, x) > CountRows(sp_df, x)

\* C13 (as stated): the two sub-tables are disjoint for every table and
\* every window the splitter accepts: no input row is placed in both.
C13_Disjoint ==
    sp_pc = "split" => \A x \in Range(sp_df.rows) : ~PlacedInBoth(x)

\* C13 (amended): a row is placed in both sub-tables exactly when its date
\* lies in both windows; the sub-tables are disjoint when the windows share
\* no date of the table.
C13_DisjointUnlessOverlap ==
    sp_pc = "split" =>
        \A x \in Range(sp_df.rows) :
            PlacedInBoth(x) <=>
                /\ DateWithin(x, comparison.current_start,
                              comparison.current_end)
                /\ DateWithin(x, comparison.previous_start,
                              comparison.previous_end)

C13_Witness ==
    /\ sp_pc = "split"
    /\ comparison = PeriodWindow("2025-11-23", "2025-11-30",
                                 "2025-11-17", "2025-11-24")
    /\ Len(sp_df.rows) = 2
    /\ sp_df.rows[1]["date"] = DateOf(24)
    /\ sp_df.rows[2]["date"] = DateOf(30)
    /\ PlacedInBoth(sp_df.rows[1])
    /\ ~PlacedInBoth(sp_df.rows[2])

---------------------------------------------------------------------------
(* Claims about ingestion                                                  *)

JoinCalled == ig_pc \in {"fallback", "joined", "join_failed"}

\* C14: join_sources with exactly one source returns that source's table
\* unchanged, without a join and without the fallback, whatever the name of
\* the source, the configured primary source and the dimensions.
C14_SingleSource ==
    (JoinCalled /\ Len(sources) = 1) =>
        /\ ig_pc = "joined"
        /\ unified = sources[1][2]
        /\ duckdb_error = ""
        /\ polars_calls = 0

C14_Witness ==
    /\ ig_pc = "joined"
    /\ SourceNames(sources) = <<"conversions">>
    /\ ig_config.primary_source = "clicks"
    /\ ig_config.primary_dims = <<"campaign">>
    /\ Len(unified.rows) = 2
    /\ unified.rows[1]["campaign"] = "b"
    /\ unified.rows[2]["campaign"] = "a"
    /\ unified = sources[1][2]

\* C15: the Polars strategy is attempted exactly when the DuckDB strategy
\* failed, at most once; the DuckDB strategy is attempted once and never
\* again; and when the Polars strategy fails too, its error is the outcome
\* of the call and there is no table.
C15_FallbackOnce ==
    /\ duckdb_calls <= 1
    /\ polars_calls <= 1
    /\ polars_calls = 1 => duckdb_calls = 1 /\ duckdb_error # ""
    /\ ig_pc \in {"joined", "join_failed"} =>
          /\ duckdb_calls = 1
          /\ polars_calls = 1 <=> duckdb_error # ""
    /\ ig_pc = "join_failed" =>
          /\ polars_calls = 1
          /\ ig_error = "KeyError"
          /\ unified = EmptyTable

C15_Witness ==
    /\ ig_pc = "join_failed"
    /\ Len(sources) = 2
    /\ ig_config.primary_source = "orders"
    /\ duckdb_calls = 1 /\ polars_calls = 1
    /\ duckdb_error = "DuckDBError"
    /\ ig_error = "KeyError"

\* C16: load_all_sources returns one table for every configured source
\* name, in configuration order, or stops at the first source that fails
\* to load with the error of that source: no later source is loaded, no
\* mapping is returned and no join is attempted.
C16_LoadAllOrAbort ==
    /\ ig_pc \in {"loaded", "fallback", "joined", "join_failed"} =>
          /\ SourceNames(sources) = ig_config.source_names
          /\ \A i \in DOMAIN sources :
                 sources[i][2] \in SourceTables(sources[i][1])
    /\ ig_pc = "load_failed" =>
          /\ ig_error = LoadError(ig_config.source_names[ig_i])
          /\ SourceNames(ld_sources) = SubSeq(ig_config.source_names, 1,
                                              ig_i - 1)
          /\ sources = <<>>
          /\ duckdb_calls = 0 /\ polars_calls = 0
          /\ unified = EmptyTable
    /\ ig_pc = "loading" => sources = <<>>

C16_Witness ==
    /\ ig_pc = "load_failed"
    /\ ig_config.source_names = <<"clicks", "conversions">>
    /\ ig_i = 2
    /\ ig_error = LoadError("conversions")
    /\ SourceNames(ld_sources) = <<"clicks">>
    /\ sources = <<>>

\* The columns of the unified table that come from a secondary source.
CarriedColumns ==
    {c \in Range(unified.columns) :
        ~HasColumn(SourceTable(sources, ig_config.primary_source), c)}

\* C17: after join_sources has joined several sources, no cell of a column
\* carried over from a secondary source is null, under either strategy.
C17_NoNullCarried ==
    (ig_pc = "joined" /\ Len(sources) > 1) =>
        \A r \in DOMAIN unified.rows, c \in CarriedColumns :
            unified.rows[r][c] # Null

---------------------------------------------------------------------------
(* Claims about the period join                                            *)

ComboOf(row) == [d \in Range(jp_dims) |-> row[d]]

CombosOf(df) == {ComboOf(df.rows[r]) : r \in DOMAIN df.rows}

JoinedRowsOf(combo) ==
    {r \in DOMAIN jp_joined.rows : ComboOf(jp_joined.rows[r]) = combo}

\* C18: with dimensions, join_periods yields exactly one row for every
\* dimension combination of the current or the previous table, carrying
\* the values of that combination; the _current and _previous cells of a
\* combination missing from a period are 0, never null; and a combination
\* of the previous period alone gives records with current_value 0 and
\* direction "down".
C18_OuterJoin ==
    (jp_pc \in {"joined", "extracted"} /\ jp_dims # <<>>) =>
        LET cur  == CombosOf(current_agg)
            prev == CombosOf(previous_agg)
        IN  /\ Len(jp_joined.rows) = Cardinality(cur \cup prev)
            /\ \A combo \in cur \cup prev :
                  /\ Cardinality(JoinedRowsOf(combo)) = 1
                  /\ \A r \in JoinedRowsOf(combo) :
                        /\ combo \notin cur =>
                              jp_joined.rows[r]["clicks_current"] = Q(0)
                        /\ combo \notin prev =>
                              jp_joined.rows[r]["clicks_previous"] = Q(0)
            /\ \A r \in DOMAIN jp_joined.rows :
                  /\ jp_joined.rows[r]["clicks_current"] # Null
                  /\ jp_joined.rows[r]["clicks_previous"] # Null
            /\ jp_pc = "extracted" =>
                  \A combo \in prev \ cur :
                     /\ \E k \in DOMAIN jp_insights :
                           jp_insights[k].dimensions = combo
                     /\ \A k \in DOMAIN jp_insights :
                           jp_insights[k].dimensions = combo =>
                              /\ jp_insights[k].current_value = Q(0)
                              /\ jp_insights[k].direction = "down"

---------------------------------------------------------------------------
(* Claims about the summary                                                *)

RecordsWith(dir) == {k \in DOMAIN ranked : ranked[k].direction = dir}

\* C19: top_mover is the first element of the ranked list and no record
\* has a higher impact_score; biggest_gain is an "up" record whose
\* delta_pct is maximal among the "up" records; biggest_drop is a "down"
\* record whose delta_pct is minimal among the "down" records; each field
\* is null exactly when the list, the "up" records, the "down" records
\* are empty.
C19_Summary ==
    in_pc = "summarised" =>
        /\ summary.top_mover = None <=> ranked = <<>>
        /\ summary.biggest_gain = None <=> RecordsWith("up") = {}
        /\ summary.biggest_drop = None <=> RecordsWith("down") = {}
        /\ ranked # <<>> =>
              /\ summary.top_mover = Some(ranked[1])
              /\ \A k \in DOMAIN ranked :
                     FLe(ranked[k].impact_score,
                         summary.top_mover[1].impact_score)
        /\ RecordsWith("up") # {} =>
              /\ \E k \in RecordsWith("up") :
                     summary.biggest_gain = Some(ranked[k])
              /\ \A k \in RecordsWith("up") :
                     FLe(ranked[k].delta_pct,
                         summary.biggest_gain[1].delta_pct)
        /\ RecordsWith("down") # {} =>
              /\ \E k \in RecordsWith("down") :
                     summary.biggest_drop = Some(ranked[k])
              /\ \A k \in RecordsWith("down") :
                     FLe(summary.biggest_drop[1].delta_pct,
                         ranked[k].delta_pct)

C19_Witness ==
    /\ in_pc = "summarised"
    /\ Len(ranked) = 4
    /\ Cardinality(RecordsWith("up")) = 2
    /\ Cardinality(RecordsWith("down")) = 2
    /\ summary.top_mover = Some(ranked[1])
    /\ summary.biggest_gain # summary.top_mover
    /\ summary.biggest_gain # None
    /\ summary.biggest_drop # None
    /\ \E k \in RecordsWith("up") :
           FLt(ranked[k].delta_pct, summary.biggest_gain[1].delta_pct)
    /\ \E k \in RecordsWith("down") :
           FLt(summary.biggest_drop[1].delta_pct, ranked[k].delta_pct)

\* C20: in every record of extract_insights, direction is "up" exactly
\* when the delta field of the record is above 0, "down" exactly when it
\* is below 0, and "flat" exactly when it is 0.
C20_DirectionOfDelta ==
    jp_pc = "extracted" =>
        \A k \in DOMAIN jp_insights :
            LET rec == jp_insights[k]
            IN  /\ rec.direction = "up" <=> FLt(Q(0), rec.delta)
                /\ rec.direction = "down" <=> FLt(rec.delta, Q(0))
                /\ rec.direction = "flat" <=> rec.delta = Q(0)

---------------------------------------------------------------------------
(* Claims about the loaders                                                *)

\* C21: the delimiter load_csv_source chooses among comma, semicolon and
\* tab occurs in the header line as often as the most frequent of the
\* three, ties included.
C21_MostFrequentDelimiter ==
    (lo_pc = "loaded" /\ source_config.type = "csv") =>
        /\ delimiter \in {",", ";", "\t"}
        /\ \A ch \in {",", ";", "\t"} :
               CountChar(first_line, ch) <= CountChar(first_line, delimiter)

DeclaredColumns ==
    Range(source_config.dimensions) \cup Range(source_config.metrics)
        \cup Range(source_config.join_key)
        \cup (IF source_config.date_col = "" THEN {}
              ELSE {source_config.date_col})

\* C22: the SELECT list of load_database_source names every declared
\* column (dimensions, metrics, date column, join keys) exactly once,
\* also a name declared in several of the lists, and is SELECT * only
\* when no column is declared.
C22_SelectListDeduplicated ==
    lo_pc = "queried" =>
        /\ query.select = <<"*">> <=> DeclaredColumns = {}
        /\ DeclaredColumns # {} =>
              /\ Range(query.select) = DeclaredColumns
              /\ \A i, j \in DOMAIN query.select :
                     query.select[i] = query.select[j] => i = j

---------------------------------------------------------------------------
(* C23: parse_date_column on a string column tries YYYY-MM-DD, YYYY/MM/DD, *)
(* MM/DD/YYYY and DD/MM/YYYY in that order and returns the column parsed   *)
(* under the first of them that reads every cell; the generic parse is     *)
(* attempted only after all four failed, and when it fails too the call    *)
(* fails with the date-parse error and returns no table; a column that is  *)
(* already a Date column is returned unchanged, with no attempt made.      *)

DocumentedFormats == <<"%Y-%m-%d", "%Y/%m/%d", "%m/%d/%Y", "%d/%m/%Y">>

FittingFormats ==
    {k \in 1..4 : ColumnParses(sp_input, "date", DocumentedFormats[k])}

C23_ParseDateColumn ==
    (sp_pc # "unparsed" /\ "date" \in Range(sp_input.columns)) =>
        /\ sp_input.dtypes["date"] = "date" =>
              /\ sp_error = "" /\ sp_tried = <<>>
              /\ sp_df = sp_input
        /\ sp_input.dtypes["date"] = "str" =>
              /\ Len(sp_tried) <= 5
              /\ \A i \in DOMAIN sp_tried :
                    sp_tried[i] = IF i <= 4 THEN DocumentedFormats[i]
                                  ELSE "infer"
              /\ FittingFormats # {} =>
                    LET k == CHOOSE j \in FittingFormats :
                                 \A l \in FittingFormats : j <= l
                    IN  /\ Len(sp_tried) = k
                        /\ sp_error = ""
                        /\ sp_df = StrToDate(sp_input, "date",
                                             DocumentedFormats[k])
              /\ FittingFormats = {} =>
                    /\ Len(sp_tried) = 5
                    /\ (\A o \in InferOutcomes(sp_input, "date") : ~o.ok)
                          => sp_error = "Cannot parse date column"
                    /\ sp_error # "" =>
                          /\ sp_error = "Cannot parse date column"
                          /\ sp_pc = "parse_failed"
                          /\ sp_df = EmptyTable
                    /\ sp_error = "" => sp_df.dtypes["date"] = "date"

\* A column that both MM/DD/YYYY and DD/MM/YYYY read: the month-first
\* reading is returned, after the two year-first formats failed.
C23_Witness ==
    /\ sp_pc = "start"
    /\ sp_input.dtypes = ("date" :> "str") @@ ("clicks" :> "i64")
    /\ Len(sp_input.rows) = 2
    /\ sp_input.rows[1]["date"] = "11/12/2025"
    /\ sp_input.rows[2]["date"] = NoneStr
    /\ sp_tried = <<"%Y-%m-%d", "%Y/%m/%d", "%m/%d/%Y">>
    /\ sp_df.rows[1]["date"] = DateOf(12)
    /\ sp_df.rows[2]["date"] = Null

---------------------------------------------------------------------------
(* C24: extract_insights emits exactly one record for every pair of a      *)
(* joined row and a metric of kpi_priority whose _current and _previous    *)
(* columns both exist, none for a metric that lacks either, in row order   *)
(* and within a row in priority order; the priority index that scores a    *)
(* record is the metric's position in kpi_priority, skipped metrics        *)
(* included.                                                               *)

HasBothColumns(metric) ==
    /\ (metric \o "_current") \in Range(joined_df.columns)
    /\ (metric \o "_previous") \in Range(joined_df.columns)

\* The (row, position) pairs in row order, then position order.
EmittedPairs ==
    Flatten([r \in DOMAIN joined_df.rows |->
        SelectSeq([i \in 1..Len(kpi_priority) |-> <<r, i>>],
                  LAMBDA p : HasBothColumns(kpi_priority[p[2]]))])

C24_OneRecordPerPair ==
    in_pc # "start" =>
        /\ Len(insights) = Len(EmittedPairs)
        /\ \A k \in DOMAIN insights :
              LET row == joined_df.rows[EmittedPairs[k][1]]
                  pos == EmittedPairs[k][2]
                  metric == kpi_priority[pos]
                  dlt == compute_delta(FloatOrZero(row[metric \o "_current"]),
                                       FloatOrZero(row[metric \o "_previous"]))
                  pct == compute_delta_pct(
                             FloatOrZero(row[metric \o "_current"]),
                             FloatOrZero(row[metric \o "_previous"]))
              IN  /\ insights[k].metric = metric
                  /\ \A d \in Range(dimensions) :
                        insights[k].dimensions[d] = row[d]
                  /\ insights[k].current_value
                        = Round(FloatOrZero(row[metric \o "_current"]), 4)
                  /\ insights[k].impact_score
                        = compute_impact_score(dlt, pct, pos - 1,
                                               Len(kpi_priority))

\* Two rows and the priority list spend, clicks over a table without the
\* spend columns: one clicks record per row, scored at position 1.
C24_Witness ==
    /\ in_pc = "extracted"
    /\ kpi_priority = <<"spend", "clicks">>
    /\ ~HasBothColumns("spend")
    /\ Len(joined_df.rows) = 2
    /\ Len(insights) = 2
    /\ insights[1].metric = "clicks" /\ insights[2].metric = "clicks"
    /\ insights[1].impact_score
          # compute_impact_score(insights[1].delta, insights[1].delta_pct,
                                 0, 2)

---------------------------------------------------------------------------
(* C25: when a secondary table shares none of the join keys, the DuckDB    *)
(* strategy adds no join predicate for it and still joins it, so that the  *)
(* strategy itself, without the fallback, produces the unified table with  *)
(* the columns of that secondary.                                          *)

UnkeyedSecondaries ==
    {i \in DOMAIN sources :
        /\ sources[i][1] # ig_config.primary_source
        /\ OnKeys(sources[i][2], JoinKeys(ig_config)) = <<>>}

C25_UnkeyedSecondaryJoined ==
    (/\ ig_pc \in {"fallback", "joined", "join_failed", "returned",
                   "ingest_failed"}
     /\ Len(sources) > 1
     /\ HasSource(sources, ig_config.primary_source)
     /\ duckdb_error # "DuckDBError"
     /\ UnkeyedSecondaries # {}) =>
        /\ duckdb_error = ""
        /\ polars_calls = 0
        /\ ig_pc # "fallback"
        /\ \A i \in UnkeyedSecondaries :
              \A c \in Range(sources[i][2].columns) : HasColumn(unified, c)

---------------------------------------------------------------------------
(* C30: a table that ingest_data returns contains the date column of the   *)
(* primary source; when the joined table lacks that column ingest_data     *)
(* fails with an error and returns no table.                               *)

C30_DateColumnOrError ==
    /\ ig_pc = "returned" => HasColumn(unified, ig_config.date_col)
    /\ (/\ ig_pc \in {"returned", "ingest_failed"}
        /\ ~HasColumn(unified, ig_config.date_col)) =>
          ig_pc = "ingest_failed" /\ ig_error # ""

---------------------------------------------------------------------------
(* C29: for every current and previous, a negative or zero previous        *)
(* included, the sign of compute_delta_pct is the sign of compute_delta:   *)
(* the percentage is positive exactly when the value rose, negative        *)
(* exactly when it fell, and 0 exactly when it is unchanged.               *)

---------------------------------------------------------------------------
(* Claims about dashboard sessions                                         *)

\* C26: get_session returns a session only to a call that presents the
\* token of that session; a call with the token omitted, None or empty, or
\* with another token, gets None, from the cache and from the file alike.
C26_TokenRequired ==
    (last_call # <<>> /\ last_call[1] = "get_session" /\ got # None) =>
        last_call[3] = Some(got[1].token)

---------------------------------------------------------------------------
(* C28: under any interleaving of concurrent calls SessionManager(dir)     *)
(* from several threads, with the same or different directories, every     *)
(* call returns an instance, not None, that is initialized and whose       *)
(* storage_dir is the directory asked for, and calls with the same         *)
(* directory return the same instance.                                     *)

C28_SingletonUnderThreads ==
    /\ \A t \in Threads :
          mg_pc[t] = "done" =>
              /\ call_result[t].status = "returned"
              /\ call_result[t].obj # 0
              /\ call_result[t].initialized
              /\ call_result[t].storage_dir = Some(requested[t])
    /\ \A t, u \in Threads :
          (mg_pc[t] = "done" /\ mg_pc[u] = "done"
              /\ requested[t] = requested[u]) =>
              call_result[t].obj = call_result[u].obj

====
